---- MODULE Spec2Model ----
(***************************************************************************)
(* Wardrobo: the request handlers GET /api/clothes, POST /api/ai/query and *)
(* POST /api/upload over the clothing catalog.                             *)
(*                                                                         *)
(* A JavaScript string is a sequence of one-character strings, so that     *)
(* toUpperCase, toLowerCase, trim, includes and parseInt are computed      *)
(* character by character.                                                 *)
(***************************************************************************)
EXTENDS Integers, Sequences, FiniteSets, TLC

(***************************************************************************)
(* Bounds of the model.                                                    *)
(***************************************************************************)
MaxUploads == 19

\* The uploads that are stored in a behaviour of UploadSpec.
MaxTagged == 2

(***************************************************************************)
(* JavaScript string primitives.                                           *)
(***************************************************************************)
LowerLetters == <<"a","b","c","d","e","f","g","h","i","j","k","l","m",
                  "n","o","p","q","r","s","t","u","v","w","x","y","z">>

UpperLetters == <<"A","B","C","D","E","F","G","H","I","J","K","L","M",
                  "N","O","P","Q","R","S","T","U","V","W","X","Y","Z">>

Digits == <<"0","1","2","3","4","5","6","7","8","9">>

IndexIn(c, table) ==
    IF \E i \in 1..Len(table) : table[i] = c
    THEN CHOOSE i \in 1..Len(table) : table[i] = c
    ELSE 0

toUpperChar(c) ==
    IF IndexIn(c, LowerLetters) > 0 THEN UpperLetters[IndexIn(c, LowerLetters)] ELSE c

toLowerChar(c) ==
    IF IndexIn(c, UpperLetters) > 0 THEN LowerLetters[IndexIn(c, UpperLetters)] ELSE c

toUpperCase(s) == [i \in 1..Len(s) |-> toUpperChar(s[i])]

toLowerCase(s) == [i \in 1..Len(s) |-> toLowerChar(s[i])]

IsSpace(c) == c \in {" ", "\t", "\n"}

IsDigit(c) == IndexIn(c, Digits) > 0

\* Index of the first character at or after i that is not white space
\* (Len(s) + 1 when there is none).
RECURSIVE SkipSpace(_, _)
SkipSpace(s, i) ==
    IF i <= Len(s) /\ IsSpace(s[i]) THEN SkipSpace(s, i + 1) ELSE i

\* Index of the last character at or before i that is not white space
\* (0 when there is none).
RECURSIVE SkipSpaceBack(_, _)
SkipSpaceBack(s, i) ==
    IF i >= 1 /\ IsSpace(s[i]) THEN SkipSpaceBack(s, i - 1) ELSE i

trim(s) == SubSeq(s, SkipSpace(s, 1), SkipSpaceBack(s, Len(s)))

includes(s, sub) ==
    \E i \in 1..(Len(s) - Len(sub) + 1) : SubSeq(s, i, i + Len(sub) - 1) = sub

(***************************************************************************)
(* Number.parseInt(value, 10): leading white space is skipped, then an     *)
(* optional sign, then the longest run of decimal digits; the result is    *)
(* NaN when that run is empty.  A JavaScript number is a record: a finite  *)
(* integer n, NaN, or Infinity.                                            *)
(***************************************************************************)
NaN == [kind |-> "nan", n |-> 0]

Infinity == [kind |-> "infinity", n |-> 0]

Num(k) == [kind |-> "finite", n |-> k]

\* Value of the digit run of s that starts at i, given the value acc of the
\* digits read so far.
RECURSIVE DigitRun(_, _, _)
DigitRun(s, i, acc) ==
    IF i <= Len(s) /\ IsDigit(s[i])
    THEN DigitRun(s, i + 1, acc * 10 + (IndexIn(s[i], Digits) - 1))
    ELSE acc

parseInt(s) ==
    LET start  == SkipSpace(s, 1)
        signed == start <= Len(s) /\ s[start] \in {"+", "-"}
        first  == IF signed THEN start + 1 ELSE start
        sign   == IF signed /\ s[start] = "-" THEN 0 - 1 ELSE 1
    IN  IF first <= Len(s) /\ IsDigit(s[first])
        THEN Num(sign * DigitRun(s, first, 0))
        ELSE NaN

(***************************************************************************)
(* null and undefined of a string-valued JavaScript expression.  They are  *)
(* sequences too, of one element that is no character, so that a nullable  *)
(* string compares with any string.                                        *)
(***************************************************************************)
null == <<"<null>">>

undefined == <<"<undefined>">>

\* The nullish test of `a ?? b`.
IsNullish(s) == s = null \/ s = undefined

\* The truthiness of a string-or-null-or-undefined value.
Truthy(s) == ~IsNullish(s) /\ Len(s) > 0

(***************************************************************************)
(* The datastore: the ClothingItem rows with their Image rows.  A price is *)
(* a nullable decimal, kept in cents.                                      *)
(***************************************************************************)
Price(cents) == [isNull |-> FALSE, cents |-> cents]

NoPrice == [isNull |-> TRUE, cents |-> 0]

ClothingCategory ==
    << <<"T","O","P">>, <<"B","O","T","T","O","M">>,
       <<"O","U","T","E","R","W","E","A","R">>,
       <<"F","O","O","T","W","E","A","R">>,
       <<"A","C","C","E","S","S","O","R","Y">>, <<"D","R","E","S","S">> >>

\* Array.prototype.includes on an array of strings.
ArrayIncludes(arr, s) == \E i \in 1..Len(arr) : arr[i] = s

(***************************************************************************)
(* The rows that prisma/seed.mjs creates, in creation order.               *)
(***************************************************************************)
seedIndigoTee ==
    [ name         |->
          <<"I","n","d","i","g","o"," ","R","e","l","a","x","e","d",
          " ","T","e","e">>,
      category     |-> <<"T","O","P">>,
      description  |->
          <<"S","o","f","t"," ","o","r","g","a","n","i","c"," ","c",
          "o","t","t","o","n"," ","t","e","e"," ","w","i","t","h"," ",
          "a"," ","r","e","l","a","x","e","d"," ","f","i","t"," ","a",
          "n","d"," ","c","r","e","w"," ","n","e","c","k","l","i","n",
          "e",".">>,
      price        |-> Price(3200),
      primaryColor |-> <<"b","l","u","e">>,
      colors       |-> <<<<"b","l","u","e">>, <<"w","h","i","t","e">>>>,
      materials    |->
          <<<<"o","r","g","a","n","i","c"," ","c","o","t","t","o","n">>>>,
      brand        |->
          <<"E","v","e","r","y","d","a","y"," ","S","u","p","p","l",
          "y">>,
      imageUrl     |->
          <<"/","i","m","a","g","e","s","/","i","n","d","i","g","o",
          "-","t","e","e",".","j","p","g">>,
      images       |-> << [ url       |->
          <<"/","i","m","a","g","e","s","/","i","n","d","i","g","o",
          "-","t","e","e",".","s","v","g">>,
                           altText   |->
          <<"I","n","d","i","g","o"," ","r","e","l","a","x","e","d",
          " ","t","e","e"," ","o","n"," ","h","a","n","g","e","r">>,
                           isPrimary |-> TRUE ] >> ]


seedLinenShirt ==
    [ name         |->
          <<"C","r","o","p","p","e","d"," ","L","i","n","e","n"," ",
          "S","h","i","r","t">>,
      category     |-> <<"T","O","P">>,
      description  |->
          <<"B","r","e","a","t","h","a","b","l","e"," ","l","i","n",
          "e","n"," ","b","u","t","t","o","n","-","u","p"," ","w","i",
          "t","h"," ","c","r","o","p","p","e","d"," ","h","e","m"," ",
          "a","n","d"," ","s","l","e","e","v","e"," ","t","a","b","s",
          ".">>,
      price        |-> Price(5450),
      primaryColor |-> <<"w","h","i","t","e">>,
      colors       |-> <<<<"w","h","i","t","e">>, <<"s","a","n","d">>>>,
      materials    |-> <<<<"l","i","n","e","n">>>>,
      brand        |-> <<"S","e","a","b","r","e","e","z","e">>,
      imageUrl     |->
          <<"/","i","m","a","g","e","s","/","l","i","n","e","n","-",
          "s","h","i","r","t",".","s","v","g">>,
      images       |-> << [ url       |->
          <<"/","i","m","a","g","e","s","/","l","i","n","e","n","-",
          "s","h","i","r","t",".","j","p","g">>,
                           altText   |->
          <<"W","h","i","t","e"," ","c","r","o","p","p","e","d"," ",
          "l","i","n","e","n"," ","s","h","i","r","t"," ","o","n"," ",
          "m","a","n","n","e","q","u","i","n">>,
                           isPrimary |-> TRUE ] >> ]


seedChinos ==
    [ name         |->
          <<"C","o","a","s","t","a","l"," ","C","h","i","n","o","s">>,
      category     |-> <<"B","O","T","T","O","M">>,
      description  |->
          <<"L","i","g","h","t","w","e","i","g","h","t"," ","s","t",
          "r","e","t","c","h"," ","c","h","i","n","o","s"," ","w","i",
          "t","h"," ","t","a","p","e","r","e","d"," ","l","e","g"," ",
          "a","n","d"," ","c","l","e","a","n"," ","f","i","n","i","s",
          "h",".">>,
      price        |-> Price(6800),
      primaryColor |-> <<"k","h","a","k","i">>,
      colors       |-> <<<<"k","h","a","k","i">>, <<"n","a","v","y">>>>,
      materials    |->
          <<<<"c","o","t","t","o","n">>,
            <<"e","l","a","s","t","a","n","e">>>>,
      brand        |-> <<"H","a","r","b","o","r","l","i","n","e">>,
      imageUrl     |->
          <<"/","i","m","a","g","e","s","/","c","o","a","s","t","a",
          "l","-","c","h","i","n","o","s",".","j","p","e","g">>,
      images       |-> << [ url       |->
          <<"/","i","m","a","g","e","s","/","c","o","a","s","t","a",
          "l","-","c","h","i","n","o","s",".","s","v","g">>,
                           altText   |->
          <<"K","h","a","k","i"," ","c","h","i","n","o","s"," ","f",
          "o","l","d","e","d"," ","o","n"," ","t","a","b","l","e">>,
                           isPrimary |-> TRUE ] >> ]


seedTechJacket ==
    [ name         |->
          <<"S","k","y","l","i","n","e"," ","T","e","c","h"," ","J",
          "a","c","k","e","t">>,
      category     |-> <<"O","U","T","E","R","W","E","A","R">>,
      description  |->
          <<"W","a","t","e","r","-","r","e","s","i","s","t","a","n",
          "t"," ","s","h","e","l","l"," ","w","i","t","h"," ","b","r",
          "e","a","t","h","a","b","l","e"," ","m","e","s","h"," ","l",
          "i","n","i","n","g"," ","a","n","d"," ","h","o","o","d",
          ".">>,
      price        |-> Price(12000),
      primaryColor |-> <<"g","r","a","y">>,
      colors       |-> <<<<"g","r","a","y">>, <<"b","l","a","c","k">>>>,
      materials    |->
          <<<<"p","o","l","y","e","s","t","e","r">>,
            <<"n","y","l","o","n">>>>,
      brand        |-> <<"N","o","r","t","h"," ","G","r","i","d">>,
      imageUrl     |->
          <<"/","i","m","a","g","e","s","/","s","k","y","l","i","n",
          "e","-","t","e","c","h","-","j","a","c","k","e","t",".","j",
          "p","g">>,
      images       |-> << [ url       |->
          <<"/","i","m","a","g","e","s","/","s","k","y","l","i","n",
          "e","-","t","e","c","h","-","j","a","c","k","e","t",".","s",
          "v","g">>,
                           altText   |->
          <<"G","r","a","y"," ","t","e","c","h","n","i","c","a","l",
          " ","j","a","c","k","e","t"," ","o","n"," ","m","o","d","e",
          "l">>,
                           isPrimary |-> TRUE ] >> ]


seedTrailBoots ==
    [ name         |->
          <<"S","u","m","m","i","t"," ","T","r","a","i","l"," ","B",
          "o","o","t","s">>,
      category     |-> <<"F","O","O","T","W","E","A","R">>,
      description  |->
          <<"W","a","t","e","r","p","r","o","o","f"," ","l","e","a",
          "t","h","e","r"," ","h","i","k","i","n","g"," ","b","o","o",
          "t","s"," ","w","i","t","h"," ","V","i","b","r","a","m"," ",
          "o","u","t","s","o","l","e",".">>,
      price        |-> Price(16000),
      primaryColor |-> <<"b","r","o","w","n">>,
      colors       |-> <<<<"b","r","o","w","n">>, <<"o","l","i","v","e">>>>,
      materials    |->
          <<<<"l","e","a","t","h","e","r">>,
            <<"r","u","b","b","e","r">>>>,
      brand        |-> <<"S","u","m","m","i","t","F","o","r","g","e">>,
      imageUrl     |->
          <<"/","i","m","a","g","e","s","/","s","u","m","m","i","t",
          "-","t","r","a","i","l","-","b","o","o","t","s",".","s","v",
          "g">>,
      images       |-> << [ url       |->
          <<"/","i","m","a","g","e","s","/","s","u","m","m","i","t",
          "-","t","r","a","i","l","-","b","o","o","t","s",".","s","v",
          "g">>,
                           altText   |->
          <<"B","r","o","w","n"," ","h","i","k","i","n","g"," ","b",
          "o","o","t","s"," ","w","i","t","h"," ","r","u","g","g","e",
          "d"," ","s","o","l","e">>,
                           isPrimary |-> TRUE ] >> ]


seedCanvasTote ==
    [ name         |->
          <<"U","r","b","a","n"," ","C","a","n","v","a","s"," ","T",
          "o","t","e">>,
      category     |-> <<"A","C","C","E","S","S","O","R","Y">>,
      description  |->
          <<"D","u","r","a","b","l","e"," ","c","a","n","v","a","s",
          " ","t","o","t","e"," ","w","i","t","h"," ","i","n","t","e",
          "r","i","o","r"," ","l","a","p","t","o","p"," ","s","l","e",
          "e","v","e"," ","a","n","d"," ","z","i","p"," ","p","o","c",
          "k","e","t",".">>,
      price        |-> Price(4800),
      primaryColor |-> <<"b","l","a","c","k">>,
      colors       |-> <<<<"b","l","a","c","k">>, <<"o","l","i","v","e">>>>,
      materials    |->
          <<<<"c","a","n","v","a","s">>,
            <<"r","e","c","y","c","l","e","d"," ","p","o","l","y","e","s","t","e","r">>>>,
      brand        |-> <<"C","i","t","y","T","h","r","e","a","d">>,
      imageUrl     |->
          <<"/","i","m","a","g","e","s","/","u","r","b","a","n","-",
          "c","a","n","v","a","s","-","t","o","t","e",".","s","v",
          "g">>,
      images       |-> << [ url       |->
          <<"/","i","m","a","g","e","s","/","u","r","b","a","n","-",
          "c","a","n","v","a","s","-","t","o","t","e",".","s","v",
          "g">>,
                           altText   |->
          <<"B","l","a","c","k"," ","c","a","n","v","a","s"," ","t",
          "o","t","e"," ","b","a","g"," ","h","a","n","g","i","n","g",
          " ","o","n"," ","c","h","a","i","r">>,
                           isPrimary |-> TRUE ] >> ]

clothingItems ==
    << seedIndigoTee,
       seedLinenShirt,
       seedChinos,
       seedTechJacket,
       seedTrailBoots,
       seedCanvasTote >>

(***************************************************************************)
(* A where-input of the ORM.  `category` is undefined when the filter has  *)
(* no category member; AND is the list of conditions (empty when the       *)
(* filter has no AND member).  A condition is one clause or an OR of       *)
(* clauses; a clause tests one column.                                     *)
(***************************************************************************)
NoBound == [isSet |-> FALSE, cents |-> 0]

Bound(cents) == [isSet |-> TRUE, cents |-> cents]

Clause(field, op, s) ==
    [field |-> field, op |-> op, s |-> s, gte |-> NoBound, lte |-> NoBound]

PriceClause(gte, lte) ==
    [field |-> "price", op |-> "range", s |-> <<>>, gte |-> gte, lte |-> lte]

Single(clause) == [isOr |-> FALSE, clauses |-> <<clause>>]

AnyOf(clauses) == [isOr |-> TRUE, clauses |-> clauses]

EmptyWhere == [category |-> undefined, AND |-> <<>>]

\* The condition both list handlers build for a colour.
ColorCondition(color) ==
    AnyOf(<< Clause("primaryColor", "equalsInsensitive", color),
             Clause("colors", "has", color) >>)

ClauseHolds(row, c) ==
    CASE c.op = "equalsInsensitive" ->
            /\ row[c.field] # null
            /\ toLowerCase(row[c.field]) = toLowerCase(c.s)
      [] c.op = "has" -> ArrayIncludes(row[c.field], c.s)
      [] c.op = "containsInsensitive" ->
            /\ row[c.field] # null
            /\ includes(toLowerCase(row[c.field]), toLowerCase(c.s))
      [] c.op = "range" ->
            /\ ~row.price.isNull
            /\ c.gte.isSet => row.price.cents >= c.gte.cents
            /\ c.lte.isSet => row.price.cents <= c.lte.cents

ConditionHolds(row, cond) ==
    \E i \in 1..Len(cond.clauses) : ClauseHolds(row, cond.clauses[i])

Matches(row, where) ==
    /\ where.category # undefined => row.category = where.category
    /\ \A i \in 1..Len(where.AND) : ConditionHolds(row, where.AND[i])

\* The rows of a table in the order createdAt desc: the reverse of the
\* creation order.
NewestFirst(rows) == [i \in 1..Len(rows) |-> rows[Len(rows) + 1 - i]]

RECURSIVE SelectSeq2(_, _)
SelectSeq2(rows, where) ==
    IF rows = <<>> THEN <<>>
    ELSE IF Matches(Head(rows), where)
         THEN <<Head(rows)>> \o SelectSeq2(Tail(rows), where)
         ELSE SelectSeq2(Tail(rows), where)

Min(a, b) == IF a <= b THEN a ELSE b

Max(a, b) == IF a >= b THEN a ELSE b

\* clothingItem.findMany({where, orderBy: {createdAt: "desc"}, skip, take})
\* for skip >= 0: the take rows after the first skip ones; a negative take
\* counts from the end of the list instead.
findMany(rows, where, skip, take) ==
    LET matching == SelectSeq2(NewestFirst(rows), where)
        n == Len(matching)
    IN  IF take >= 0
        THEN SubSeq(matching, skip + 1, Min(n, skip + take))
        ELSE SubSeq(matching, Max(1, n - skip + take + 1), n - skip)

\* clothingItem.count({where}).
count(rows, where) == Len(SelectSeq2(rows, where))

Ids(rows) == [i \in 1..Len(rows) |-> rows[i].id]

\* ceilDiv as Math.floor(a / b) would have it.
ceilDiv_floor(a, b) ==
    IF b = 0 THEN (IF a = 0 THEN NaN ELSE Infinity)
    ELSE IF b > 0 THEN Num(a \div b)
    ELSE Num(0 - (a \div (0 - b)) - (IF a % (0 - b) = 0 THEN 0 ELSE 1))

\* Math.ceil(a / b) for a >= 0.
ceilDiv(a, b) ==
    IF b = 0 THEN (IF a = 0 THEN NaN ELSE Infinity)
    ELSE IF b > 0 THEN Num(IF a % b = 0 THEN a \div b ELSE (a \div b) + 1)
    ELSE Num(0 - (a \div (0 - b)))

\* Math.max(1, x)
max1(x) == IF x.kind = "finite" THEN Num(Max(1, x.n)) ELSE x

(***************************************************************************)
(* State.                                                                  *)
(***************************************************************************)
VARIABLES
    catalog,    \* the ClothingItem rows (with their Image rows), oldest first
    storage,    \* the public URLs of the files written to storage
    now,        \* Date.now()
    req,        \* the request handled last
    resp,       \* the response to it
    bodyRead,   \* whether the handler read that request's body
    dbQueries,  \* the list queries that request sent to the datastore
    aiCalls,    \* the calls that request made to the hosted endpoint
    tx,         \* the list transaction that is open in the datastore
    \* the page in the browser: ClothingExplorer, Header and UploadModal
    mounted,            \* whether the explorer is mounted
    searchInput,        \* the text in the search box
    filters,            \* the applied search and page
    shownItems,         \* items: the ids of the items on display
    totalPages,
    shownTotal,         \* total
    isLoading,
    isLoadingMore,
    shownError,         \* error: the message on display, <<>> for null
    refreshTrigger,
    hasInitialData,
    debounceTimer,      \* what is left of the debounce timer, -1 without one
    issued,             \* the fetches that the explorer has made
    fetches,            \* those in flight that nothing has aborted
    spinners,           \* what is left of each wait for the minimum spinner time
    isUploadModalOpen,
    upload,             \* the upload that the modal is waiting for
    modalError,         \* the message of the modal, <<>> for null
    headerTimer,        \* what is left of the header's timer, -1 without one
    events              \* the events that the user has caused

server == <<catalog, storage, now, req, resp, bodyRead, dbQueries, aiCalls, tx>>

browser ==
    <<mounted, searchInput, filters, shownItems, totalPages, shownTotal,
      isLoading, isLoadingMore, shownError, refreshTrigger, hasInitialData, debounceTimer,
      issued, fetches, spinners, isUploadModalOpen, upload, modalError,
      headerTimer, events>>

vars == <<server, browser>>

\* The rows of the seed, with the columns that it leaves to their defaults.
WithIds(items) ==
    [i \in 1..Len(items) |-> ("id" :> i) @@ ("metadata" :> <<>>) @@ items[i]]

NoMeta == [page |-> 0, perPage |-> 0, total |-> 0, totalPages |-> Num(0)]

NoRequest == [route |-> "none"]

\* A response: its status, the error member of its JSON body ("" when the
\* body has none), the ids of the rows in its data member, its meta member,
\* and whether it is the framework's answer to an exception that the
\* handler let escape.
NoResponse ==
    [status |-> 0, error |-> "", details |-> "", data |-> <<>>, meta |-> NoMeta,
     unhandled |-> FALSE]

ListResponse(data, meta) ==
    [status |-> 200, error |-> "", details |-> "", data |-> data, meta |-> meta,
     unhandled |-> FALSE]

ErrorResponse(status, error) ==
    [status |-> status, error |-> error, details |-> "", data |-> <<>>,
     meta |-> NoMeta, unhandled |-> FALSE]

Unhandled ==
    [status |-> 500, error |-> "", details |-> "", data |-> <<>>, meta |-> NoMeta,
     unhandled |-> TRUE]

\* No transaction is open.
NoTransaction == [open |-> FALSE]

\* No page is open in a browser.
NoBrowser ==
    /\ mounted = FALSE
    /\ searchInput = <<>>
    /\ filters = [search |-> <<>>, page |-> 1]
    /\ shownItems = <<>>
    /\ totalPages = Num(1)
    /\ shownTotal = 0
    /\ isLoading = FALSE
    /\ isLoadingMore = FALSE
    /\ shownError = <<>>
    /\ refreshTrigger = 0
    /\ hasInitialData = FALSE
    /\ debounceTimer = -1
    /\ issued = 0
    /\ fetches = <<>>
    /\ spinners = {}
    /\ isUploadModalOpen = FALSE
    /\ upload = NoRequest
    /\ modalError = <<>>
    /\ headerTimer = -1
    /\ events = 0

Init ==
    /\ catalog \in {<<>>, WithIds(clothingItems)}
    /\ tx = NoTransaction
    /\ NoBrowser
    /\ storage = {}
    /\ now = 0
    /\ req = NoRequest
    /\ resp = NoResponse
    /\ bodyRead = FALSE
    /\ dbQueries = <<>>
    /\ aiCalls = 0

(***************************************************************************)
(* GET /api/clothes                                                        *)
(***************************************************************************)
DEFAULT_PAGE_SIZE == 12

\* parseNumber without the test for zero and negative numbers.
parseNumber_keepsNegative(value, fallback) ==
    IF ~Truthy(value) THEN fallback
    ELSE LET asNumber == parseInt(value)
         IN  IF asNumber.kind = "nan" THEN fallback ELSE asNumber.n

parseNumber(value, fallback) ==
    IF ~Truthy(value) THEN fallback
    ELSE LET asNumber == parseInt(value)
         IN  IF asNumber.kind = "nan" \/ asNumber.n <= 0 THEN fallback ELSE asNumber.n

\* ClothesWhere without the upper-casing of the category.
ClothesWhere_noUpperCase(category, color, search) ==
    LET categoryPart ==
            IF Truthy(category) /\ ArrayIncludes(ClothingCategory, category)
            THEN category ELSE undefined
        colorPart ==
            IF Truthy(color) THEN <<ColorCondition(toLowerCase(color))>> ELSE <<>>
        query == trim(search)
        orClauses ==
            << Clause("name", "containsInsensitive", query),
               Clause("description", "containsInsensitive", query),
               Clause("brand", "containsInsensitive", query) >>
            \o (IF includes(toLowerCase(query), <<"s","t","r","i","p","e">>)
                THEN <<Clause("materials", "has", <<"s","t","r","i","p","e","d">>)>>
                ELSE <<>>)
        searchPart ==
            IF Truthy(search) /\ Len(query) > 0 THEN <<AnyOf(orClauses)>> ELSE <<>>
    IN  [category |-> categoryPart, AND |-> colorPart \o searchPart]

\* The where-input that GET builds from the query parameters.
ClothesWhere(category, color, search) ==
    LET normalizedCategory == toUpperCase(category)
        categoryPart ==
            IF Truthy(category) /\ ArrayIncludes(ClothingCategory, normalizedCategory)
            THEN normalizedCategory ELSE undefined
        colorPart ==
            IF Truthy(color) THEN <<ColorCondition(toLowerCase(color))>> ELSE <<>>
        query == trim(search)
        orClauses ==
            << Clause("name", "containsInsensitive", query),
               Clause("description", "containsInsensitive", query),
               Clause("brand", "containsInsensitive", query) >>
            \o (IF includes(toLowerCase(query), <<"s","t","r","i","p","e">>)
                THEN <<Clause("materials", "has", <<"s","t","r","i","p","e","d">>)>>
                ELSE <<>>)
        searchPart ==
            IF Truthy(search) /\ Len(query) > 0 THEN <<AnyOf(orClauses)>> ELSE <<>>
    IN  [category |-> categoryPart, AND |-> colorPart \o searchPart]

\* ListTransaction with the skip one page too far.
ListTransaction_skipPage(rows, where, page, pageSize) ==
    LET skip  == page * pageSize
        items == findMany(rows, where, skip, pageSize)
        total == count(rows, where)
    IN  [query |-> [where |-> where, skip |-> skip, take |-> pageSize],
         response |->
            IF skip < 0 THEN Unhandled
            ELSE ListResponse(Ids(items),
                     [page |-> page, perPage |-> pageSize, total |-> total,
                      totalPages |-> max1(ceilDiv(total, pageSize))])]

\* The transaction of a list handler and the response it builds.  The ORM
\* rejects a negative skip; no handler catches that.
ListTransaction(rows, where, page, pageSize) ==
    LET skip  == (page - 1) * pageSize
        items == findMany(rows, where, skip, pageSize)
        total == count(rows, where)
    IN  [query |-> [where |-> where, skip |-> skip, take |-> pageSize],
         response |->
            IF skip < 0 THEN Unhandled
            ELSE ListResponse(Ids(items),
                     [page |-> page, perPage |-> pageSize, total |-> total,
                      totalPages |-> max1(ceilDiv(total, pageSize))])]

GET(r) ==
    LET page     == parseNumber(r.page, 1)
        pageSize == parseNumber(r.perPage, DEFAULT_PAGE_SIZE)
        search   == IF IsNullish(r.search) THEN r.q ELSE r.search
        where    == ClothesWhere(r.category, r.color, search)
        listed   == ListTransaction(catalog, where, page, pageSize)
    IN  /\ req.route = "none"
        /\ req' = r
        /\ resp' = listed.response
        /\ bodyRead' = FALSE
        /\ dbQueries' = <<listed.query>>
        /\ aiCalls' = 0
        /\ UNCHANGED <<catalog, storage, now, tx, browser>>

(***************************************************************************)
(* Values of a JSON document: undefined (an absent member), null, a        *)
(* number, a string, or an array of such values.                           *)
(***************************************************************************)
JUndefined == [t |-> "undefined", n |-> 0, s |-> <<>>, arr |-> <<>>]

JNull == [t |-> "null", n |-> 0, s |-> <<>>, arr |-> <<>>]

JNum(k) == [t |-> "number", n |-> k, s |-> <<>>, arr |-> <<>>]

JStr(str) == [t |-> "string", n |-> 0, s |-> str, arr |-> <<>>]

JArr(values) == [t |-> "array", n |-> 0, s |-> <<>>, arr |-> values]

\* The truthiness of a value.
JTruthy(v) ==
    CASE v.t \in {"undefined", "null"} -> FALSE
      [] v.t = "number" -> v.n # 0
      [] v.t = "string" -> Len(v.s) > 0
      [] v.t = "array" -> TRUE

\* The string-or-null-or-undefined that a value is when the code treats it
\* as `string | null | undefined`.
AsNullableString(v) ==
    CASE v.t = "undefined" -> undefined
      [] v.t = "null" -> null
      [] v.t = "string" -> v.s

(***************************************************************************)
(* The message content of a chat completion, as its sequence of lexical    *)
(* tokens: braces, commas, object members (a name with its value), JSON    *)
(* scalars, and words that are no JSON.                                    *)
(***************************************************************************)
Tok(k) == [k |-> k, name |-> "", value |-> JUndefined]

Member(name, v) == [k |-> "member", name |-> name, value |-> v]

Scalar(v) == [k |-> "scalar", name |-> "", value |-> v]

\* content.match(/\{[\s\S]*\}/): from the first opening brace to the last
\* closing brace after it; jsonText is the match, or the content without one.
jsonText(content) ==
    LET opens  == {i \in 1..Len(content) : content[i].k = "{"}
        first  == CHOOSE i \in opens : \A j \in opens : i <= j
        closes == {i \in 1..Len(content) : content[i].k = "}" /\ i > first}
        last   == CHOOSE i \in closes : \A j \in closes : i >= j
    IN  IF opens # {} /\ closes # {} THEN SubSeq(content, first, last) ELSE content

\* JSON.parse: [threw] when the text is no JSON document, else the parsed
\* value: an object (the list of its members) or a scalar.
JSON_parse(text) ==
    LET n == Len(text)
        inner == SubSeq(text, 2, n - 1)
        wellFormed ==
            /\ Len(inner) = 0 \/ Len(inner) % 2 = 1
            /\ \A i \in 1..Len(inner) :
                   inner[i].k = (IF i % 2 = 1 THEN "member" ELSE ",")
    IN  IF n = 1 /\ text[1].k = "scalar"
        THEN [threw |-> FALSE, isObject |-> FALSE, members |-> <<>>, value |-> text[1].value]
        ELSE IF n >= 2 /\ text[1].k = "{" /\ text[n].k = "}" /\ wellFormed
        THEN [threw |-> FALSE, isObject |-> TRUE,
              members |-> SelectSeq(inner, LAMBDA m : m.k = "member"),
              value |-> JUndefined]
        ELSE [threw |-> TRUE, isObject |-> FALSE, members |-> <<>>, value |-> JUndefined]

\* obj[name] of a parsed object: the value of its last member of that name.
Get(members, name) ==
    LET at == {i \in 1..Len(members) : members[i].name = name}
    IN  IF at = {} THEN JUndefined
        ELSE members[CHOOSE i \in at : \A j \in at : i >= j].value

(***************************************************************************)
(* POST /api/ai/query: the filter extraction.                              *)
(***************************************************************************)
NoFeatures == [t |-> "undefined", items |-> <<>>]

EmptyExtraction ==
    [category |-> undefined, color |-> undefined, search |-> undefined,
     brand |-> undefined, priceMin |-> JUndefined, priceMax |-> JUndefined,
     clothingType |-> undefined, pattern |-> undefined, sleeve |-> undefined,
     graphic |-> undefined, features |-> NoFeatures]

coerceString(v) == IF v.t = "string" THEN v.s ELSE null

coerceNumber(v) == IF v.t = "number" THEN v ELSE JNull

coerceStringArray(v) ==
    IF v.t = "array"
    THEN [t |-> "array",
          items |-> LET strings == SelectSeq(v.arr, LAMBDA x : x.t = "string")
                    IN  [i \in 1..Len(strings) |-> strings[i].s]]
    ELSE [t |-> "null", items |-> <<>>]

\* coerceString(v)?.toUpperCase() ?? null
UpperOrNull(v) == IF coerceString(v) = null THEN null ELSE toUpperCase(coerceString(v))

\* coerceString(v)?.toLowerCase() ?? null
LowerOrNull(v) == IF coerceString(v) = null THEN null ELSE toLowerCase(coerceString(v))

normalizeExtraction(parsed) ==
    IF ~parsed.isObject THEN EmptyExtraction
    ELSE LET obj == parsed.members
         IN  [category     |-> UpperOrNull(Get(obj, "category")),
              color        |-> LowerOrNull(Get(obj, "color")),
              search       |-> coerceString(Get(obj, "search")),
              brand        |-> coerceString(Get(obj, "brand")),
              priceMin     |-> coerceNumber(Get(obj, "priceMin")),
              priceMax     |-> coerceNumber(Get(obj, "priceMax")),
              clothingType |-> LowerOrNull(Get(obj, "clothingType")),
              pattern      |-> LowerOrNull(Get(obj, "pattern")),
              sleeve       |-> LowerOrNull(Get(obj, "sleeve")),
              graphic      |-> LowerOrNull(Get(obj, "graphic")),
              features     |-> coerceStringArray(Get(obj, "features"))]

\* What the hosted endpoint does with a call: the fetch rejects, or it
\* answers with a status and a body that is a JSON document or not; the
\* document carries a message content (a string, or none, or another value).
Completion(content) ==
    [kind |-> "response", status |-> 200, bodyIsJson |-> TRUE,
     content |-> [t |-> "string", tokens |-> content]]

CompletionWithout(t) ==
    [kind |-> "response", status |-> 200, bodyIsJson |-> TRUE,
     content |-> [t |-> t, tokens |-> <<>>]]

UpstreamStatus(status) ==
    [kind |-> "response", status |-> status, bodyIsJson |-> FALSE,
     content |-> [t |-> "undefined", tokens |-> <<>>]]

UpstreamBadBody ==
    [kind |-> "response", status |-> 200, bodyIsJson |-> FALSE,
     content |-> [t |-> "undefined", tokens |-> <<>>]]

UpstreamNetworkError ==
    [kind |-> "networkError", status |-> 0, bodyIsJson |-> FALSE,
     content |-> [t |-> "undefined", tokens |-> <<>>]]

Threw(message, calls) ==
    [threw |-> TRUE, message |-> message, calls |-> calls, value |-> EmptyExtraction]

Returned(value) ==
    [threw |-> FALSE, message |-> "", calls |-> 1, value |-> value]

\* extractFiltersWithOpenAI without the test of response.ok.
extractFiltersWithOpenAI_ignoresStatus(apiKey, upstream) ==
    IF ~apiKey THEN Threw("OPENAI_API_KEY is not configured", 0)
    ELSE IF upstream.kind = "networkError" THEN Threw("fetch failed", 1)
    ELSE IF ~upstream.bodyIsJson THEN Returned(EmptyExtraction)
    ELSE IF upstream.content.t # "string" \/ Len(upstream.content.tokens) = 0
         THEN Returned(EmptyExtraction)
    ELSE LET parsed == JSON_parse(jsonText(upstream.content.tokens))
         IN  IF parsed.threw THEN Returned(EmptyExtraction)
             ELSE Returned(normalizeExtraction(parsed))

\* extractFiltersWithOpenAI without the catch around JSON.parse.
extractFiltersWithOpenAI_parseThrows(apiKey, upstream) ==
    IF ~apiKey THEN Threw("OPENAI_API_KEY is not configured", 0)
    ELSE IF upstream.kind = "networkError" THEN Threw("fetch failed", 1)
    ELSE IF ~(upstream.status \in 200..299) THEN Threw("OpenAI API error", 1)
    ELSE IF ~upstream.bodyIsJson THEN Threw("Unexpected token", 1)
    ELSE IF upstream.content.t # "string" \/ Len(upstream.content.tokens) = 0
         THEN Returned(EmptyExtraction)
    ELSE LET parsed == JSON_parse(jsonText(upstream.content.tokens))
         IN  IF parsed.threw THEN Threw("Unexpected token", 1)
             ELSE Returned(normalizeExtraction(parsed))

extractFiltersWithOpenAI(apiKey, upstream) ==
    IF ~apiKey THEN Threw("OPENAI_API_KEY is not configured", 0)
    ELSE IF upstream.kind = "networkError" THEN Threw("fetch failed", 1)
    ELSE IF ~(upstream.status \in 200..299) THEN Threw("OpenAI API error", 1)
    ELSE IF ~upstream.bodyIsJson THEN Threw("Unexpected token", 1)
    ELSE IF upstream.content.t # "string" \/ Len(upstream.content.tokens) = 0
         THEN Returned(EmptyExtraction)
    ELSE LET parsed == JSON_parse(jsonText(upstream.content.tokens))
         IN  IF parsed.threw THEN Returned(EmptyExtraction)
             ELSE Returned(normalizeExtraction(parsed))

(***************************************************************************)
(* POST /api/ai/query: the where-input built from the extraction.          *)
(***************************************************************************)
typeMap ==
    << <<<<"t","s","h","i","r","t">>,
         <<"t","y","p","e",":","t","s","h","i","r","t">>>>,
       <<<<"s","h","i","r","t">>,
         <<"t","y","p","e",":","s","h","i","r","t">>>>,
       <<<<"s","w","e","a","t","s","h","i","r","t">>,
         <<"t","y","p","e",":","s","w","e","a","t","s","h","i","r","t">>>>,
       <<<<"h","o","o","d","i","e">>,
         <<"t","y","p","e",":","h","o","o","d","i","e">>>>,
       <<<<"s","w","e","a","t","e","r">>,
         <<"t","y","p","e",":","s","w","e","a","t","e","r">>>>,
       <<<<"j","e","a","n","s">>,
         <<"t","y","p","e",":","j","e","a","n","s">>>>,
       <<<<"p","a","n","t","s">>,
         <<"t","y","p","e",":","p","a","n","t","s">>>>,
       <<<<"s","h","o","r","t","s">>,
         <<"t","y","p","e",":","s","h","o","r","t","s">>>>,
       <<<<"j","a","c","k","e","t">>,
         <<"t","y","p","e",":","j","a","c","k","e","t">>>>,
       <<<<"c","o","a","t">>,
         <<"t","y","p","e",":","c","o","a","t">>>>,
       <<<<"b","l","a","z","e","r">>,
         <<"t","y","p","e",":","b","l","a","z","e","r">>>>,
       <<<<"d","r","e","s","s">>,
         <<"t","y","p","e",":","d","r","e","s","s">>>>,
       <<<<"s","k","i","r","t">>,
         <<"t","y","p","e",":","s","k","i","r","t">>>>,
       <<<<"b","l","o","u","s","e">>,
         <<"t","y","p","e",":","b","l","o","u","s","e">>>> >>

patternMap ==
    << <<<<"s","t","r","i","p","e","d">>,
         <<"p","a","t","t","e","r","n",":","s","t","r","i","p","e","d">>>>,
       <<<<"d","o","t","t","e","d">>,
         <<"p","a","t","t","e","r","n",":","d","o","t","t","e","d">>>>,
       <<<<"f","l","o","r","a","l">>,
         <<"p","a","t","t","e","r","n",":","f","l","o","r","a","l">>>>,
       <<<<"g","r","a","p","h","i","c">>,
         <<"p","a","t","t","e","r","n",":","g","r","a","p","h","i","c">>>>,
       <<<<"s","o","l","i","d">>,
         <<"p","a","t","t","e","r","n",":","s","o","l","i","d">>>> >>

\* sleeveMap with another token for sleeveless.
sleeveMap_none ==
    << << <<"s","h","o","r","t">>, <<"s","l","e","e","v","e",":","s","h","o","r","t">> >>,
       << <<"l","o","n","g">>, <<"s","l","e","e","v","e",":","l","o","n","g">> >>,
       << <<"s","l","e","e","v","e","l","e","s","s">>, <<"s","l","e","e","v","e",":","n","o","n","e">> >> >>

sleeveMap ==
    << <<<<"s","h","o","r","t">>,
         <<"s","l","e","e","v","e",":","s","h","o","r","t">>>>,
       <<<<"l","o","n","g">>,
         <<"s","l","e","e","v","e",":","l","o","n","g">>>>,
       <<<<"s","l","e","e","v","e","l","e","s","s">>,
         <<"s","l","e","e","v","e",":","s","l","e","e","v","e","l","e","s","s">>>> >>

\* map[key] of an object literal with the listed members.
Lookup(map, key) ==
    IF \E i \in 1..Len(map) : map[i][1] = key
    THEN map[CHOOSE i \in 1..Len(map) : map[i][1] = key][2]
    ELSE undefined

MaterialsHas(token) == Single(Clause("materials", "has", token))

\* The condition for extracted[field] under a token map: none when the
\* value is empty or no key of the map.
MappedCondition(map, value) ==
    IF Truthy(value) /\ Truthy(Lookup(map, value))
    THEN <<MaterialsHas(Lookup(map, value))>>
    ELSE <<>>

\* s.split(re) for a regular expression re that matches the non-empty runs
\* of the characters of seps.
RECURSIVE splitOn(_, _)
splitOn(s, seps) ==
    IF \E i \in 1..Len(s) : s[i] \in seps
    THEN LET i == CHOOSE k \in 1..Len(s) :
                      s[k] \in seps /\ \A j \in 1..(k - 1) : s[j] \notin seps
             rest == CHOOSE k \in i..(Len(s) + 1) :
                      /\ \A j \in i..(k - 1) : s[j] \in seps
                      /\ k <= Len(s) => s[k] \notin seps
         IN  <<SubSeq(s, 1, i - 1)>> \o splitOn(SubSeq(s, rest, Len(s)), seps)
    ELSE <<s>>

WhiteSpace == {" ", "\t", "\n"}

\* s.split(/\s+/)
split(s) == splitOn(s, WhiteSpace)

graphicPrefix == <<"g","r","a","p","h","i","c",":">>

GraphicCondition(graphic) ==
    IF ~Truthy(graphic) THEN <<>>
    ELSE LET graphicDesc == toLowerCase(trim(graphic))
             words == SelectSeq(split(graphicDesc), LAMBDA w : Len(w) > 2)
         IN  << AnyOf(<<Clause("materials", "has", graphicPrefix \o graphicDesc)>>
                      \o [i \in 1..Len(words) |->
                             Clause("materials", "has", graphicPrefix \o words[i])]) >>

FeatureCondition(feature) ==
    LET f == toLowerCase(feature)
    IN  (IF includes(f, <<"h","o","o","d">>)
         THEN <<MaterialsHas(<<"h","o","o","d">>)>> ELSE <<>>)
        \o (IF includes(f, <<"z","i","p">>)
            THEN <<MaterialsHas(<<"c","l","o","s","u","r","e",":","z","i","p","p","e","r">>)>>
            ELSE <<>>)
        \o (IF includes(f, <<"b","u","t","t","o","n">>)
            THEN <<MaterialsHas(<<"c","l","o","s","u","r","e",":","b","u","t","t","o","n","s">>)>>
            ELSE <<>>)

RECURSIVE FeatureConditions(_)
FeatureConditions(items) ==
    IF items = <<>> THEN <<>>
    ELSE FeatureCondition(Head(items)) \o FeatureConditions(Tail(items))

\* The nullish coalescing a ?? b of two nullable strings.
Coalesce(a, b) == IF IsNullish(a) THEN b ELSE a

\* colorCandidate with the extracted colour before the colour of the request.
colorCandidate_extractedFirst(seedColor, extracted) ==
    LET rawColor == Coalesce(Coalesce(extracted.color, seedColor), <<>>)
    IN  IF Len(rawColor) > 0 THEN toLowerCase(rawColor) ELSE <<>>

\* The colour condition: (seedColor ?? extracted.color ?? "") lower-cased.
colorCandidate(seedColor, extracted) ==
    LET rawColor == Coalesce(Coalesce(seedColor, extracted.color), <<>>)
    IN  IF Len(rawColor) > 0 THEN toLowerCase(rawColor) ELSE <<>>

\* materialConditions without the conditions of the features.
materialConditions_noFeatures(extracted) ==
    MappedCondition(typeMap, extracted.clothingType)
    \o MappedCondition(patternMap, extracted.pattern)
    \o MappedCondition(sleeveMap, extracted.sleeve)
    \o GraphicCondition(extracted.graphic)

materialConditions(extracted) ==
    MappedCondition(typeMap, extracted.clothingType)
    \o MappedCondition(patternMap, extracted.pattern)
    \o MappedCondition(sleeveMap, extracted.sleeve)
    \o GraphicCondition(extracted.graphic)
    \o (IF extracted.features.t = "array"
        THEN FeatureConditions(extracted.features.items) ELSE <<>>)

QueryWhere(seedColor, extracted) ==
    LET color == colorCandidate(seedColor, extracted)
        colorPart == IF Len(color) > 0 THEN <<ColorCondition(color)>> ELSE <<>>
        materials == materialConditions(extracted)
        searchQuery == trim(Coalesce(extracted.search, <<>>))
        searchPart ==
            IF Len(searchQuery) > 0 /\ Len(materials) = 0
            THEN << AnyOf(<< Clause("name", "containsInsensitive", searchQuery),
                            Clause("description", "containsInsensitive", searchQuery),
                            Clause("brand", "containsInsensitive", searchQuery),
                            Clause("materials", "has", graphicPrefix \o searchQuery) >>) >>
            ELSE <<>>
        brandPart ==
            IF Truthy(extracted.brand)
            THEN <<Single(Clause("brand", "containsInsensitive", extracted.brand))>>
            ELSE <<>>
        pricePart ==
            IF extracted.priceMin.t = "number" \/ extracted.priceMax.t = "number"
            THEN << Single(PriceClause(
                      IF extracted.priceMin.t = "number"
                      THEN Bound(extracted.priceMin.n) ELSE NoBound,
                      IF extracted.priceMax.t = "number"
                      THEN Bound(extracted.priceMax.n) ELSE NoBound)) >>
            ELSE <<>>
    IN  [category |-> undefined,
         AND |-> colorPart \o materials \o searchPart \o brandPart \o pricePart]


(***************************************************************************)
(* POST /api/ai/query                                                      *)
(***************************************************************************)
applicationJson == <<"a","p","p","l","i","c","a","t","i","o","n","/","j","s","o","n">>

\* The members the handler destructures from the body.  request.json()
\* rejects on a body that is no JSON and the handler then takes {}; a body
\* that is a JSON scalar other than null has none of the members.
NoMembers ==
    [prompt |-> JUndefined, page |-> JUndefined, perPage |-> JUndefined,
     color |-> JUndefined]

\* The handler takes prompt, page, perPage and color from the body, and
\* nothing else.
Destructure(body) ==
    IF body.kind = "object"
    THEN [prompt  |-> body.members.prompt,  page  |-> body.members.page,
          perPage |-> body.members.perPage, color |-> body.members.color]
    ELSE NoMembers

\* acceptsJson with the Content-Type compared in lower case.
acceptsJson_ignoreCase(contentType) ==
    includes(toLowerCase(contentType), applicationJson)

\* contentType.includes("application/json")
acceptsJson(contentType) == includes(contentType, applicationJson)

\* bodyNumber with a numeric string converted to its number.
bodyNumber_convertsStrings(raw, fallback) ==
    IF raw.t = "number" THEN raw.n
    ELSE IF raw.t = "string" /\ parseInt(raw.s).kind = "finite" THEN parseInt(raw.s).n
    ELSE fallback

\* typeof raw === "number" ? raw : fallback
bodyNumber(raw, fallback) == IF raw.t = "number" THEN raw.n ELSE fallback

POST(r) ==
    LET contentType == Coalesce(r.contentType, <<>>)
        m          == Destructure(r.body)
        page       == bodyNumber(m.page, 1)
        pageSize   == bodyNumber(m.perPage, DEFAULT_PAGE_SIZE)
        noPrompt   == \/ ~JTruthy(m.prompt)
                      \/ m.prompt.t # "string"
                      \/ Len(trim(m.prompt.s)) = 0
        extraction == extractFiltersWithOpenAI(r.apiKey, r.upstream)
        where      == QueryWhere(AsNullableString(m.color), extraction.value)
        listed     == ListTransaction(catalog, where, page, pageSize)
    IN  /\ req.route = "none"
        /\ req' = r
        /\ UNCHANGED <<catalog, storage, now, tx, browser>>
        /\ IF ~acceptsJson(contentType)
           THEN /\ resp' = ErrorResponse(415, "Content-Type must be application/json")
                /\ bodyRead' = FALSE
                /\ dbQueries' = <<>>
                /\ aiCalls' = 0
           ELSE IF r.body.kind = "null"
           THEN \* destructuring null throws a TypeError outside any try
                /\ resp' = Unhandled
                /\ bodyRead' = TRUE
                /\ dbQueries' = <<>>
                /\ aiCalls' = 0
           ELSE IF noPrompt
           THEN /\ resp' = ErrorResponse(400, "Missing prompt")
                /\ bodyRead' = TRUE
                /\ dbQueries' = <<>>
                /\ aiCalls' = 0
           ELSE IF extraction.threw
           THEN /\ resp' = ErrorResponse(502, extraction.message)
                /\ bodyRead' = TRUE
                /\ dbQueries' = <<>>
                /\ aiCalls' = extraction.calls
           ELSE /\ resp' = listed.response
                /\ bodyRead' = TRUE
                /\ dbQueries' = <<listed.query>>
                /\ aiCalls' = extraction.calls


(***************************************************************************)
(* POST /api/upload: the tags of a vision extraction.                      *)
(***************************************************************************)
NoArray == [t |-> "undefined", items |-> <<>>]

ArrayOf(items) == [t |-> "array", items |-> items]

\* The extraction of a failed or skipped vision call: {}.
EmptyVision ==
    [primaryColor |-> undefined, colors |-> NoArray, category |-> undefined,
     features |-> NoArray, clothingType |-> undefined, sleeve |-> undefined,
     pattern |-> undefined, graphicDescription |-> undefined,
     closure |-> undefined, keys |-> 0]

ALLOWED_CATEGORIES == ClothingCategory

normalizeCategory(value) ==
    IF ~Truthy(value) THEN null
    ELSE IF ArrayIncludes(ALLOWED_CATEGORIES, toUpperCase(value))
         THEN toUpperCase(value) ELSE null

\* value || ""
OrEmpty(value) == IF Truthy(value) THEN value ELSE <<>>

normalizeColors(values) ==
    IF values.t # "array" THEN <<>>
    ELSE SelectSeq([i \in 1..Len(values.items) |->
                       toLowerCase(trim(values.items[i]))],
                   LAMBDA c : Len(c) > 0)

startsWith(s, prefix) ==
    Len(s) >= Len(prefix) /\ SubSeq(s, 1, Len(prefix)) = prefix

normalizeFeature(value) ==
    LET v1 == toLowerCase(trim(value))
        v2 == IF startsWith(v1, <<"s","t","r","i","p","e">>) THEN <<"p","a","t","t","e","r","n",":","s","t","r","i","p","e","d">> ELSE v1
        v3 == IF includes(v2, <<"p","o","l","k","a">>) \/ includes(v2, <<"d","o","t">>) THEN <<"p","a","t","t","e","r","n",":","d","o","t","t","e","d">> ELSE v2
        v4 == IF includes(v3, <<"f","l","o","r","a","l">>) \/ includes(v3, <<"f","l","o","w","e","r">>) THEN <<"p","a","t","t","e","r","n",":","f","l","o","r","a","l">> ELSE v3
        v5 == IF v4 = <<"z","i","p","p","e","r">> THEN <<"c","l","o","s","u","r","e",":","z","i","p","p","e","r">> ELSE v4
    IN  IF v5 = <<"b","u","t","t","o","n","s">> \/ v5 = <<"b","u","t","t","o","n">> THEN <<"c","l","o","s","u","r","e",":","b","u","t","t","o","n","s">> ELSE v5

normalizeFeatures(values) ==
    IF values.t # "array" THEN <<>>
    ELSE SelectSeq([i \in 1..Len(values.items) |-> normalizeFeature(values.items[i])],
                   LAMBDA v : Len(v) > 0)

uploadTypeMap ==
    << <<<<"t","s","h","i","r","t">>,
         <<"t","y","p","e",":","t","s","h","i","r","t">>>>,
       <<<<"t","-","s","h","i","r","t">>,
         <<"t","y","p","e",":","t","s","h","i","r","t">>>>,
       <<<<"t","e","e">>,
         <<"t","y","p","e",":","t","s","h","i","r","t">>>>,
       <<<<"s","h","i","r","t">>,
         <<"t","y","p","e",":","s","h","i","r","t">>>>,
       <<<<"j","e","a","n","s">>,
         <<"t","y","p","e",":","j","e","a","n","s">>>>,
       <<<<"p","a","n","t","s">>,
         <<"t","y","p","e",":","p","a","n","t","s">>>>,
       <<<<"t","r","o","u","s","e","r","s">>,
         <<"t","y","p","e",":","p","a","n","t","s">>>>,
       <<<<"c","h","i","n","o","s">>,
         <<"t","y","p","e",":","p","a","n","t","s">>>>,
       <<<<"s","h","o","r","t","s">>,
         <<"t","y","p","e",":","s","h","o","r","t","s">>>>,
       <<<<"j","a","c","k","e","t">>,
         <<"t","y","p","e",":","j","a","c","k","e","t">>>>,
       <<<<"c","o","a","t">>,
         <<"t","y","p","e",":","c","o","a","t">>>>,
       <<<<"b","l","a","z","e","r">>,
         <<"t","y","p","e",":","b","l","a","z","e","r">>>>,
       <<<<"d","r","e","s","s">>,
         <<"t","y","p","e",":","d","r","e","s","s">>>>,
       <<<<"s","k","i","r","t">>,
         <<"t","y","p","e",":","s","k","i","r","t">>>>,
       <<<<"s","w","e","a","t","e","r">>,
         <<"t","y","p","e",":","s","w","e","a","t","e","r">>>>,
       <<<<"s","w","e","a","t","s","h","i","r","t">>,
         <<"t","y","p","e",":","s","w","e","a","t","s","h","i","r","t">>>>,
       <<<<"h","o","o","d","i","e">>,
         <<"t","y","p","e",":","h","o","o","d","i","e">>>>,
       <<<<"b","l","o","u","s","e">>,
         <<"t","y","p","e",":","b","l","o","u","s","e">>>> >>

uploadSleeveMap ==
    << <<<<"s","h","o","r","t">>,
         <<"s","l","e","e","v","e",":","s","h","o","r","t">>>>,
       <<<<"l","o","n","g">>,
         <<"s","l","e","e","v","e",":","l","o","n","g">>>>,
       <<<<"s","l","e","e","v","e","l","e","s","s">>,
         <<"s","l","e","e","v","e",":","s","l","e","e","v","e","l","e","s","s">>>> >>

uploadPatternMap ==
    << <<<<"s","t","r","i","p","e","d">>,
         <<"p","a","t","t","e","r","n",":","s","t","r","i","p","e","d">>>>,
       <<<<"s","t","r","i","p","e","s">>,
         <<"p","a","t","t","e","r","n",":","s","t","r","i","p","e","d">>>>,
       <<<<"d","o","t","t","e","d">>,
         <<"p","a","t","t","e","r","n",":","d","o","t","t","e","d">>>>,
       <<<<"p","o","l","k","a">>,
         <<"p","a","t","t","e","r","n",":","d","o","t","t","e","d">>>>,
       <<<<"p","o","l","k","a","-","d","o","t">>,
         <<"p","a","t","t","e","r","n",":","d","o","t","t","e","d">>>>,
       <<<<"f","l","o","r","a","l">>,
         <<"p","a","t","t","e","r","n",":","f","l","o","r","a","l">>>>,
       <<<<"f","l","o","w","e","r">>,
         <<"p","a","t","t","e","r","n",":","f","l","o","r","a","l">>>>,
       <<<<"s","o","l","i","d">>,
         <<"p","a","t","t","e","r","n",":","s","o","l","i","d">>>>,
       <<<<"g","r","a","p","h","i","c">>,
         <<"p","a","t","t","e","r","n",":","g","r","a","p","h","i","c">>>> >>

\* stopWords with a word of a description among them.
stopWords_moon ==
    { <<"o","n">>, <<"w","i","t","h">>, <<"a","n","d">>, <<"t","h","e">>, <<"a">>, <<"a","n">>, <<"o","f">>, <<"i","n">>, <<"a","t">>, <<"m","o","o","n">> }

stopWords ==
    { <<"o","n">>, <<"w","i","t","h">>, <<"a","n","d">>, <<"t","h","e">>, <<"a">>,
      <<"a","n">>, <<"o","f">>, <<"i","n">>, <<"a","t">> }

\* The token of the first key of the map that the value includes, if any.
FirstIncluded(map, value) ==
    LET hits == {i \in 1..Len(map) : includes(value, map[i][1])}
    IN  IF hits = {} THEN <<>>
        ELSE <<map[CHOOSE i \in hits : \A j \in hits : i <= j][2]>>

\* The token of the value under the map, if the value is a key of it.
Mapped(map, value) ==
    IF Len(value) > 0 /\ Truthy(Lookup(map, value)) THEN <<Lookup(map, value)>> ELSE <<>>

buildDerivedFeatureTokens(v) ==
    LET ct    == toLowerCase(OrEmpty(v.clothingType))
        sl    == toLowerCase(OrEmpty(v.sleeve))
        pat   == toLowerCase(OrEmpty(v.pattern))
        clos  == toLowerCase(OrEmpty(v.closure))
        feats == IF v.features.t = "array"
                 THEN [i \in 1..Len(v.features.items) |-> toLowerCase(v.features.items[i])]
                 ELSE <<>>
        some(sub) == \E i \in 1..Len(feats) : includes(feats[i], sub)
        graphicDesc == trim(toLowerCase(OrEmpty(v.graphicDescription)))
        pieces == splitOn(graphicDesc, WhiteSpace \cup {","})
        words == SelectSeq([i \in 1..Len(pieces) |-> trim(pieces[i])],
                           LAMBDA w : Len(w) > 2 /\ w \notin stopWords)
    IN  Mapped(uploadTypeMap, ct)
        \o Mapped(uploadSleeveMap, sl)
        \o FirstIncluded(uploadPatternMap, pat)
        \o (IF includes(clos, <<"z","i","p">>) THEN <<<<"c","l","o","s","u","r","e",":","z","i","p","p","e","r">>>> ELSE <<>>)
        \o (IF includes(clos, <<"b","u","t","t","o","n">>) THEN <<<<"c","l","o","s","u","r","e",":","b","u","t","t","o","n","s">>>> ELSE <<>>)
        \o (IF some(<<"c","r","e","w">>) THEN <<<<"n","e","c","k",":","c","r","e","w">>>> ELSE <<>>)
        \o (IF some(<<"v","-","n","e","c","k">>) \/ some(<<"v"," ","n","e","c","k">>) THEN <<<<"n","e","c","k",":","v">>>> ELSE <<>>)
        \o (IF some(<<"p","o","l","o">>) THEN <<<<"t","y","p","e",":","s","h","i","r","t">>>> ELSE <<>>)
        \o (IF Len(graphicDesc) > 0
            THEN <<graphicPrefix \o graphicDesc>>
                 \o [i \in 1..Len(words) |-> graphicPrefix \o words[i]]
            ELSE <<>>)

(***************************************************************************)
(* POST /api/upload: the vision call.                                      *)
(***************************************************************************)
\* The fetch that is aborted when the timer of VISION_TIMEOUT_MS fires.
UpstreamTimeout ==
    [kind |-> "timeout", status |-> 0, bodyIsJson |-> FALSE,
     content |-> [t |-> "undefined", tokens |-> <<>>]]

\* A member that the code reads as `string[] | null | undefined`.
AsStringArray(v) ==
    CASE v.t \in {"undefined", "null"} -> NoArray
      [] v.t = "array" -> ArrayOf([i \in 1..Len(v.arr) |-> v.arr[i].s])

\* The parsed content as a VisionExtraction (the cast of line 215), with the
\* number of its own keys.
VisionExtraction(parsed) ==
    IF parsed.isObject
    THEN [primaryColor |-> AsNullableString(Get(parsed.members, "primaryColor")),
          colors       |-> AsStringArray(Get(parsed.members, "colors")),
          category     |-> AsNullableString(Get(parsed.members, "category")),
          features     |-> AsStringArray(Get(parsed.members, "features")),
          clothingType |-> AsNullableString(Get(parsed.members, "clothingType")),
          sleeve       |-> AsNullableString(Get(parsed.members, "sleeve")),
          pattern      |-> AsNullableString(Get(parsed.members, "pattern")),
          graphicDescription |->
              AsNullableString(Get(parsed.members, "graphicDescription")),
          closure      |-> AsNullableString(Get(parsed.members, "closure")),
          keys |-> Cardinality({parsed.members[i].name : i \in 1..Len(parsed.members)})]
    ELSE IF parsed.value.t = "string"
    THEN [EmptyVision EXCEPT !.keys = Len(parsed.value.s)]
    ELSE EmptyVision

\* The result of analyzeImageWithVision and the number of its calls of the
\* hosted endpoint.
Analyzed(vision, calls) == [vision |-> vision, calls |-> calls]

analyzeImageWithVision(apiKey, upstream) ==
    IF ~apiKey THEN Analyzed(EmptyVision, 0)
    ELSE IF upstream.kind \in {"networkError", "timeout"} THEN Analyzed(EmptyVision, 1)
    ELSE IF ~(upstream.status \in 200..299) THEN Analyzed(EmptyVision, 1)
    ELSE IF ~upstream.bodyIsJson THEN Analyzed(EmptyVision, 1)
    ELSE LET content ==
                 IF upstream.content.t \in {"undefined", "null"}
                 THEN << Tok("{"), Tok("}") >>
                 ELSE upstream.content.tokens
             parsed == JSON_parse(content)
         IN  IF parsed.threw THEN Analyzed(EmptyVision, 1)
             ELSE Analyzed(VisionExtraction(parsed), 1)


(***************************************************************************)
(* POST /api/upload                                                        *)
(***************************************************************************)
MAX_SERVER_UPLOAD_BYTES == 4718592

multipartFormData == <<"m","u","l","t","i","p","a","r","t","/","f","o","r","m","-","d","a","t","a">>

allowedTypes == << <<"i","m","a","g","e","/","j","p","e","g">>, <<"i","m","a","g","e","/","j","p","g">>, <<"i","m","a","g","e","/","p","n","g">>, <<"i","m","a","g","e","/","w","e","b","p">> >>

\* The decimal digits of a natural number.
RECURSIVE numberToString(_)
numberToString(n) ==
    IF n < 10 THEN <<Digits[n + 1]>>
    ELSE numberToString(n \div 10) \o <<Digits[(n % 10) + 1]>>

\* name.replace(/[^a-zA-Z0-9._-]/g, "_")
safeName(name) ==
    [i \in 1..Len(name) |->
        IF \/ IndexIn(name[i], LowerLetters) > 0
           \/ IndexIn(name[i], UpperLetters) > 0
           \/ IsDigit(name[i])
           \/ name[i] \in {".", "_", "-"}
        THEN name[i] ELSE "_"]

\* The public URL of the stored file: the URL of the blob when a blob token
\* is configured, else the path under the local uploads directory.
publicUrl(blobToken, timePrefix, fileName) ==
    LET filename == numberToString(timePrefix) \o <<"-">> \o safeName(fileName)
    IN  IF blobToken THEN <<"h","t","t","p","s",":","/","/","b","l","o","b",".","v","e","r","c","e","l","-","s","t","o","r","a","g","e",".","c","o","m","/">> \o <<"w","a","r","d","r","o","b","o","/">> \o filename
        ELSE <<"/","u","p","l","o","a","d","s","/">> \o filename

\* itemName with ?? in the place of ||.
itemName_nullish(name) ==
    IF IsNullish(name) THEN <<"U","n","t","i","t","l","e","d"," ","I","t","e","m">> ELSE name

\* String(form.get("name") || "Untitled Item")
itemName(name) == IF Truthy(name) THEN name ELSE <<"U","n","t","i","t","l","e","d"," ","I","t","e","m">>

\* The row that the handler creates, with its one image.
NewItem(id, name, url, vision) ==
    [ id           |-> id,
      name         |-> name,
      category     |-> IF normalizeCategory(vision.category) = null
                       THEN <<"T","O","P">> ELSE normalizeCategory(vision.category),
      description  |-> null,
      price        |-> NoPrice,
      primaryColor |-> IF Len(toLowerCase(trim(OrEmpty(vision.primaryColor)))) > 0
                       THEN toLowerCase(trim(OrEmpty(vision.primaryColor)))
                       ELSE null,
      colors       |-> normalizeColors(vision.colors),
      materials    |-> normalizeFeatures(vision.features)
                       \o buildDerivedFeatureTokens(vision),
      brand        |-> null,
      imageUrl     |-> url,
      metadata     |-> IF vision.keys > 0 THEN <<vision>> ELSE <<>>,
      images       |-> << [url |-> url, altText |-> name, isPrimary |-> TRUE] >> ]

\* clothingItem_create without the nested create of the image.
clothingItem_create_noImage(rows, item, dbError) ==
    IF dbError # ""
    THEN [threw |-> TRUE, message |-> dbError, rows |-> rows]
    ELSE [threw |-> FALSE, message |-> "",
          rows |-> Append(rows, [item EXCEPT !.images = <<>>])]

\* clothingItem_create with the item written before its image fails.
clothingItem_create_keepsItem(rows, item, dbError) ==
    IF dbError # ""
    THEN [threw |-> TRUE, message |-> dbError,
          rows |-> Append(rows, [item EXCEPT !.images = <<>>])]
    ELSE [threw |-> FALSE, message |-> "", rows |-> Append(rows, item)]

\* prisma.clothingItem.create with its nested create of the image: one
\* write, which adds the row with its image or fails and adds nothing.
clothingItem_create(rows, item, dbError) ==
    IF dbError # ""
    THEN [threw |-> TRUE, message |-> dbError, rows |-> rows]
    ELSE [threw |-> FALSE, message |-> "", rows |-> Append(rows, item)]

\* Rejection with the test of the type before the tests of the size.
Rejection_typeFirst(r) ==
    IF ~includes(Coalesce(r.contentType, <<>>), multipartFormData)
    THEN ErrorResponse(415, "Content-Type must be multipart/form-data")
    ELSE IF ~r.formParses THEN Unhandled
    ELSE IF ~r.file.isFile THEN ErrorResponse(400, "Missing file")
    ELSE IF ~ArrayIncludes(allowedTypes, r.file.type)
    THEN ErrorResponse(400, "Unsupported file type")
    ELSE IF r.file.size <= 0 THEN ErrorResponse(400, "Empty file")
    ELSE IF r.file.size > MAX_SERVER_UPLOAD_BYTES
    THEN ErrorResponse(413, "File too large (>4.5MB)")
    ELSE NoResponse

\* The answer of the checks that the handler makes before it stores the
\* file (NoResponse when they all pass); request.formData() throws on a body
\* that is no form, and nothing catches it.
Rejection(r) ==
    IF ~includes(Coalesce(r.contentType, <<>>), multipartFormData)
    THEN ErrorResponse(415, "Content-Type must be multipart/form-data")
    ELSE IF ~r.formParses THEN Unhandled
    ELSE IF ~r.file.isFile THEN ErrorResponse(400, "Missing file")
    ELSE IF r.file.size <= 0 THEN ErrorResponse(400, "Empty file")
    ELSE IF r.file.size > MAX_SERVER_UPLOAD_BYTES
    THEN ErrorResponse(413, "File too large (>4.5MB)")
    ELSE IF ~ArrayIncludes(allowedTypes, r.file.type)
    THEN ErrorResponse(400, "Unsupported file type")
    ELSE NoResponse

\* Upload with the file stored before its size and type are checked.
Upload_storesFirst(r) ==
    LET contentType == Coalesce(r.contentType, <<>>)
        name == itemName(r.name)
        url  == publicUrl(r.blobToken, now, r.file.name)
        rejection == Rejection(r)
        analyzed == analyzeImageWithVision(r.apiKey, r.upstream)
        created == NewItem(Len(catalog) + 1, name, url, analyzed.vision)
        written == clothingItem_create(catalog, created, r.dbError)
    IN  /\ req.route = "none"
        /\ now < MaxUploads
        /\ req' = r
        /\ dbQueries' = <<>>
        /\ UNCHANGED <<tx, browser>>
        /\ IF ~includes(contentType, multipartFormData)
           THEN /\ resp' = rejection
                /\ bodyRead' = FALSE
                /\ aiCalls' = 0
                /\ UNCHANGED <<catalog, storage, now>>
           ELSE IF rejection # NoResponse
           THEN /\ resp' = rejection
                /\ bodyRead' = TRUE
                /\ aiCalls' = 0
                /\ storage' = IF r.formParses /\ r.file.isFile
                              THEN storage \cup {url} ELSE storage
                /\ UNCHANGED <<catalog, now>>
           ELSE /\ bodyRead' = TRUE
                /\ storage' = storage \cup {url}
                /\ now' = now + r.elapsed
                /\ aiCalls' = analyzed.calls
                /\ catalog' = written.rows
                /\ resp' = IF written.threw
                           THEN [ErrorResponse(500, "Upload failed")
                                     EXCEPT !.details = written.message]
                           ELSE ListResponse(<<created.id>>, NoMeta)

Upload(r) ==
    LET contentType == Coalesce(r.contentType, <<>>)
        name == itemName(r.name)
        url  == publicUrl(r.blobToken, now, r.file.name)
        rejection == Rejection(r)
        analyzed == analyzeImageWithVision(r.apiKey, r.upstream)
        created == NewItem(Len(catalog) + 1, name, url, analyzed.vision)
        written == clothingItem_create(catalog, created, r.dbError)
    IN  /\ req.route = "none"
        /\ now < MaxUploads
        /\ req' = r
        /\ dbQueries' = <<>>
        /\ UNCHANGED <<tx, browser>>
        /\ IF ~includes(contentType, multipartFormData)
           THEN /\ resp' = rejection
                /\ bodyRead' = FALSE
                /\ aiCalls' = 0
                /\ UNCHANGED <<catalog, storage, now>>
           ELSE IF rejection # NoResponse
           THEN /\ resp' = rejection
                /\ bodyRead' = TRUE
                /\ aiCalls' = 0
                /\ UNCHANGED <<catalog, storage, now>>
           ELSE /\ bodyRead' = TRUE
                /\ storage' = storage \cup {url}
                /\ now' = now + r.elapsed
                /\ aiCalls' = analyzed.calls
                /\ catalog' = written.rows
                /\ resp' = IF written.threw
                           THEN [ErrorResponse(500, "Upload failed")
                                     EXCEPT !.details = written.message]
                           ELSE ListResponse(<<created.id>>, NoMeta)


(***************************************************************************)
(* The requests of the model.                                              *)
(***************************************************************************)
ClothesRequest(page, perPage, category, color, search, q) ==
    [route |-> "clothes", page |-> page, perPage |-> perPage,
     category |-> category, color |-> color, search |-> search, q |-> q]

PageParams ==
    { null, <<>>, <<"a","b","c">>, <<"0">>, <<"-","1">>, <<"1">>, <<"3">>,
      <<" ","2","x">> }

PerPageParams ==
    { null, <<>>, <<"0">>, <<"-","5">>, <<"1","0">>, <<"2">>, <<"1",".","5">> }

CategoryParams ==
    { null, <<>>, <<"t","o","p">>, <<"T","O","P">>, <<"D","r","e","s","s">>, <<"h","a","t">>, <<"f","o","o","t","w","e","a","r">> }

ColorParams == { null, <<"B","l","u","e">> }

SearchParams ==
    { <<null, null>>, <<<<" ">>, null>>, <<<<"T","e","e">>, null>>, <<null, <<"b","o","o","t","s">>>>,
      <<<<"S","t","r","i","p","e","s">>, null>> }

ClothesRequests ==
    { ClothesRequest(page, perPage, null, null, null, null) :
          page \in PageParams, perPage \in PerPageParams }
    \cup
    { ClothesRequest(null, perPage, category, color, sq[1], sq[2]) :
          perPage \in {null, <<"2">>}, category \in CategoryParams,
          color \in ColorParams, sq \in SearchParams }

Body(kind, prompt, page, perPage, color) ==
    [kind |-> kind,
     members |-> [prompt |-> prompt, page |-> page, perPage |-> perPage,
                  color |-> color, category |-> JUndefined]]

\* A body with a category member, as the README describes the request.
BodyWithCategory(category) ==
    [kind |-> "object",
     members |-> [prompt |-> JStr(<<"b","l","u","e"," ","s","h","i","r","t">>), page |-> JUndefined,
                  perPage |-> JUndefined, color |-> JUndefined,
                  category |-> category]]

ObjectBody(prompt, page, perPage, color) ==
    Body("object", prompt, page, perPage, color)

\* A body that is no JSON, the JSON document null, and a JSON scalar.
OtherBodies ==
    { Body(kind, JUndefined, JUndefined, JUndefined, JUndefined) :
          kind \in {"unparseable", "null", "scalar"} }

QueryRequest(contentType, body, apiKey, upstream) ==
    [route |-> "query", contentType |-> contentType, body |-> body,
     apiKey |-> apiKey, upstream |-> upstream]

aPrompt == JStr(<<"b","l","u","e"," ","s","h","i","r","t">>)

jsonContentTypes == { <<"a","p","p","l","i","c","a","t","i","o","n","/","j","s","o","n">>, <<"a","p","p","l","i","c","a","t","i","o","n","/","j","s","o","n",";"," ","c","h","a","r","s","e","t","=","u","t","f","-","8">> }

otherContentTypes == { null, <<"t","e","x","t","/","p","l","a","i","n">>, <<"A","p","p","l","i","c","a","t","i","o","n","/","J","S","O","N">> }

\* Message contents that are no JSON object.
notValidJson == << Tok("text"), Tok("text"), Tok("text") >>

twoObjects ==
    << Tok("{"), Tok("text"), Tok("}"), Tok("text"),
       Tok("{"), Member("color", JStr(<<"b","l","u","e">>)), Tok("}") >>

unclosedObject == << Tok("{"), Member("color", JStr(<<"b","l","u","e">>)) >>

MalformedContents ==
    { notValidJson, twoObjects, unclosedObject,
      << Scalar(JNum(5)) >>, << Scalar(JNull) >>, << Scalar(JStr(<<"b","l","u","e">>)) >> }

MalformedCompletions ==
    { Completion(c) : c \in MalformedContents }
    \cup { CompletionWithout("undefined"), CompletionWithout("number"),
           Completion(<<>>) }

\* Message contents that hold a JSON object.
emptyObject == << Tok("{"), Tok("}") >>

colorInProse ==
    << Tok("text"), Tok("{"), Member("color", JStr(<<"B","l","u","e">>)), Tok("}"), Tok("text") >>

searchOnly == << Tok("{"), Member("search", JStr(<<"s","h","i","r","t">>)), Tok("}") >>

colorAndType ==
    << Tok("{"), Member("color", JStr(<<"w","h","i","t","e">>)), Tok(","),
       Member("clothingType", JStr(<<"S","h","i","r","t">>)), Tok(","),
       Member("search", JStr(<<"l","i","n","e","n">>)), Tok("}") >>

manyFields ==
    << Tok("{"), Member("color", JNum(7)), Tok(","),
       Member("graphic", JStr(<<"S","t","a","r"," "," ","l","o","g","o">>)), Tok(","),
       Member("features", JArr(<< JStr(<<"H","o","o","d","e","d">>), JNum(5), JStr(<<"z","i","p"," ","f","r","o","n","t">>) >>)), Tok(","),
       Member("pattern", JStr(<<"p","l","a","i","d">>)), Tok(","),
       Member("sleeve", JStr(<<"L","O","N","G">>)), Tok(","),
       Member("brand", JStr(<<"n","o","r","t","h">>)), Tok(","),
       Member("priceMin", JNum(5000)), Tok(","),
       Member("priceMax", JNull), Tok("}") >>

categoryOnly == << Tok("{"), Member("category", JStr(<<"f","o","o","t","w","e","a","r">>)), Tok("}") >>

ObjectContents == { emptyObject, colorInProse, searchOnly, colorAndType, manyFields }

SeedCategories == { JUndefined, JNull, JStr(<<"t","o","p">>), JStr(<<"h","a","t">>) }

FailingUpstreams ==
    { UpstreamNetworkError, UpstreamStatus(500), UpstreamStatus(401), UpstreamBadBody }

SeedColors == { JUndefined, JNull, JStr(<<>>), JStr(<<"R","e","d">>), JStr(<<"o","l","i","v","e">>) }

PageMembers == { JUndefined, JNull, JStr(<<"2">>), JNum(1), JNum(2), JNum(3) }

PerPageMembers == { JUndefined, JStr(<<"5">>), JNum(1), JNum(10), JNum(20) }

QueryRequests ==
    \* a Content-Type other than JSON
    { QueryRequest(ct, ObjectBody(aPrompt, JUndefined, JUndefined, JUndefined),
                   TRUE, Completion(emptyObject)) : ct \in otherContentTypes }
    \cup
    \* a body without a usable prompt
    { QueryRequest(<<"a","p","p","l","i","c","a","t","i","o","n","/","j","s","o","n">>, b, TRUE, Completion(emptyObject)) :
          b \in OtherBodies \cup
                { ObjectBody(prompt, JNum(2), JUndefined, JStr(<<"R","e","d">>)) :
                      prompt \in { JUndefined, JNull, JNum(0), JNum(5), JStr(<<>>),
                                   JStr(<<" "," "," ">>) } } }
    \cup
    \* a failing extraction
    { QueryRequest(<<"a","p","p","l","i","c","a","t","i","o","n","/","j","s","o","n">>,
                   ObjectBody(aPrompt, JUndefined, JUndefined, color), apiKey, up) :
          color \in { JUndefined, JStr(<<"R","e","d">>) }, apiKey \in BOOLEAN,
          up \in FailingUpstreams }
    \cup
    \* an extraction from a completion, under each colour of the request
    { QueryRequest(ct, ObjectBody(aPrompt, JUndefined, JUndefined, color),
                   TRUE, up) :
          ct \in jsonContentTypes, color \in SeedColors,
          up \in MalformedCompletions \cup { Completion(c) : c \in ObjectContents } }
    \cup
    \* the pages of an unfiltered list
    { QueryRequest(<<"a","p","p","l","i","c","a","t","i","o","n","/","j","s","o","n">>, ObjectBody(aPrompt, page, perPage, JUndefined),
                   TRUE, Completion(notValidJson)) :
          page \in PageMembers, perPage \in PerPageMembers }
    \cup
    \* a category in the body, in the extraction, or in both
    { QueryRequest(<<"a","p","p","l","i","c","a","t","i","o","n","/","j","s","o","n">>, BodyWithCategory(category), TRUE, Completion(c)) :
          category \in SeedCategories, c \in { emptyObject, categoryOnly } }

File(isFile, size, type, name) ==
    [isFile |-> isFile, size |-> size, type |-> type, name |-> name]

\* An upload: its Content-Type, whether its body is a form, the file and
\* name fields of the form, whether a blob token and an API key are
\* configured, what the hosted endpoint does, the error of the datastore
\* write ("" when it succeeds), and the time that the handler takes.
TaggedUpload(contentType, formParses, file, name, apiKey, upstream, dbError) ==
    [route |-> "upload", contentType |-> contentType, formParses |-> formParses,
     file |-> file, name |-> name, blobToken |-> FALSE, apiKey |-> apiKey,
     upstream |-> upstream, dbError |-> dbError, elapsed |-> 1]

UploadRequest(contentType, file, name, dbError) ==
    TaggedUpload(contentType, TRUE, file, name, FALSE, UpstreamNetworkError, dbError)

aPhoto == File(TRUE, 2048, <<"i","m","a","g","e","/","p","n","g">>, <<"m","y"," ","s","h","i","r","t",".","p","n","g">>)

multipart == <<"m","u","l","t","i","p","a","r","t","/","f","o","r","m","-","d","a","t","a",";"," ","b","o","u","n","d","a","r","y","=","x">>

UploadRequests ==
    { UploadRequest(multipart, aPhoto, null, ""),
      UploadRequest(<<"a","p","p","l","i","c","a","t","i","o","n","/","j","s","o","n">>, aPhoto, null, ""),
      UploadRequest(multipart, File(FALSE, 0, <<>>, <<>>), <<"S","h","i","r","t">>, "") }

\* The uploads of UploadSpec: every rejection, every outcome of the vision
\* call, and a failing write.
aGif == File(TRUE, 2048, <<"i","m","a","g","e","/","g","i","f">>, <<"a","n","i","m",".","g","i","f">>)

FormFiles ==
    { File(FALSE, 0, <<>>, <<>>), File(FALSE, 9000000, <<"i","m","a","g","e","/","g","i","f">>, <<"x",".","g","i","f">>) }
    \cup { File(TRUE, size, type, <<"m","y"," ","s","h","i","r","t",".","p","n","g">>) :
              size \in {0, 1, MAX_SERVER_UPLOAD_BYTES, MAX_SERVER_UPLOAD_BYTES + 1},
              type \in { <<"i","m","a","g","e","/","j","p","e","g">>, <<"i","m","a","g","e","/","j","p","g">>, <<"i","m","a","g","e","/","p","n","g">>, <<"i","m","a","g","e","/","w","e","b","p">>,
                         <<"i","m","a","g","e","/","g","i","f">>, <<"i","m","a","g","e","/","P","N","G">>, <<>> } }

garment ==
    << Tok("{"), Member("category", JStr(<<"d","r","e","s","s">>)), Tok(","),
       Member("primaryColor", JStr(<<" ","R","e","d"," ">>)), Tok(","),
       Member("colors", JArr(<< JStr(<<"R","E","D">>), JStr(<<" ">>) >>)), Tok(","),
       Member("clothingType", JStr(<<"D","r","e","s","s">>)), Tok(","),
       Member("features", JArr(<< JStr(<<"Z","i","p","p","e","r">>) >>)), Tok("}") >>

FailingVisions ==
    { UpstreamNetworkError, UpstreamTimeout, UpstreamStatus(500), UpstreamStatus(401),
      UpstreamBadBody, Completion(notValidJson), Completion(unclosedObject),
      Completion(<<>>) }

EmptyVisions ==
    { CompletionWithout("undefined"), CompletionWithout("null"),
      Completion(emptyObject), Completion(<< Scalar(JNum(5)) >>),
      Completion(<< Scalar(JNull) >>) }

FormNames == { null, <<>>, <<"S","h","i","r","t">> }

TaggedUploads ==
    \* a Content-Type other than a form
    { TaggedUpload(ct, TRUE, f, null, TRUE, Completion(garment), "") :
          ct \in { null, <<"a","p","p","l","i","c","a","t","i","o","n","/","j","s","o","n">>, <<"M","u","l","t","i","p","a","r","t","/","F","o","r","m","-","D","a","t","a">> },
          f \in { aPhoto, aGif, File(FALSE, 0, <<>>, <<>>) } }
    \cup
    \* a body that is no form
    { TaggedUpload(multipart, FALSE, aPhoto, null, TRUE, Completion(garment), "") }
    \cup
    \* the file field
    { TaggedUpload(multipart, TRUE, f, null, FALSE, UpstreamNetworkError, "") :
          f \in FormFiles }
    \cup
    \* a file that is rejected, with a vision call that would tag it
    { TaggedUpload(multipart, TRUE, aGif, <<"S","h","i","r","t">>, TRUE, Completion(garment), "") }
    \cup
    \* the vision call
    { TaggedUpload(multipart, TRUE, aPhoto, name, apiKey, up, "") :
          name \in FormNames, apiKey \in BOOLEAN,
          up \in FailingVisions \cup EmptyVisions
                 \cup { Completion(garment), Completion(<< Scalar(JStr(<<"r","e","d">>)) >>) } }
    \cup
    \* the datastore write
    { TaggedUpload(multipart, TRUE, aPhoto, <<"S","h","i","r","t">>, apiKey, Completion(garment), dbError) :
          apiKey \in BOOLEAN,
          dbError \in { "Can't reach database server", "Unique constraint failed" } }

(***************************************************************************)
(* The response goes out to the client, and the server is ready for the    *)
(* next request.  The handlers keep nothing of a request once it is        *)
(* answered.                                                               *)
(***************************************************************************)
Respond ==
    /\ req.route # "none"
    /\ ~tx.open
    /\ req' = NoRequest
    /\ resp' = NoResponse
    /\ bodyRead' = FALSE
    /\ dbQueries' = <<>>
    /\ aiCalls' = 0
    /\ UNCHANGED <<catalog, storage, now, tx, browser>>

(***************************************************************************)
(* The specification.                                                      *)
(***************************************************************************)
Idle == req.route = "none"

Next ==
    \/ Idle /\ \E r \in ClothesRequests : GET(r)
    \/ Idle /\ \E r \in QueryRequests : POST(r)
    \/ Idle /\ \E r \in UploadRequests : Upload(r)
    \/ Respond

Spec == Init /\ [][Next]_vars

\* The uploads alone, with every kind of upload request.
UploadNext ==
    \/ Idle /\ now < MaxTagged /\ \E r \in TaggedUploads : Upload(r)
    \/ Respond

UploadSpec == Init /\ [][UploadNext]_vars


(***************************************************************************)
(* Properties of GET /api/clothes.                                         *)
(***************************************************************************)

\* The ids of the rows that satisfy the where-input of the list query.
MatchingIds(where) ==
    {catalog[i].id : i \in {j \in 1..Len(catalog) : Matches(catalog[j], where)}}

\* The number of matching rows that are newer than the row id.
Rank(id, where) == Cardinality({other \in MatchingIds(where) : other > id})

ClothesAnswered == req.route = "clothes" /\ resp.status = 200

\* C1: the totalPages of every GET /api/clothes response is
\* max(1, ceil(total / perPage)), the least k >= 1 with k * perPage >= total,
\* where total is the number of rows matching the filter; it is 1 for total 0
\* and 3 for total 25 with perPage 10.
C1_TotalPages ==
    req.route = "clothes" =>
        LET meta == resp.meta
            k    == meta.totalPages
        IN  /\ resp.status = 200
            /\ meta.total = Cardinality(MatchingIds(dbQueries[1].where))
            /\ meta.perPage = dbQueries[1].take
            /\ k.kind = "finite"
            /\ k.n >= 1
            /\ k.n * meta.perPage >= meta.total
            /\ k.n > 1 => (k.n - 1) * meta.perPage < meta.total
            /\ meta.total = 0 => k.n = 1
            /\ (meta.total = 25 /\ meta.perPage = 10) => k.n = 3

C1_Witness ==
    /\ ClothesAnswered
    /\ resp.meta.total = 25
    /\ resp.meta.perPage = 10
    /\ resp.meta.totalPages = Num(3)

\* C2: GET /api/clothes with effective page p and page size n queries the
\* datastore once with skip = (p - 1) * n and take = n; the data is the slice
\* [(p-1)*n, p*n) of the matching rows newest first, at most n rows; meta
\* echoes p and n.
C2_Slice ==
    req.route = "clothes" =>
        LET p == parseNumber(req.page, 1)
            n == parseNumber(req.perPage, DEFAULT_PAGE_SIZE)
            q == dbQueries[1]
            inSlice == {id \in MatchingIds(q.where) :
                           /\ Rank(id, q.where) >= (p - 1) * n
                           /\ Rank(id, q.where) < p * n}
        IN  /\ Len(dbQueries) = 1
            /\ q.skip = (p - 1) * n
            /\ q.take = n
            /\ resp.meta.page = p
            /\ resp.meta.perPage = n
            /\ Len(resp.data) <= n
            /\ Len(resp.data) = Cardinality(inSlice)
            /\ \A k \in 1..Len(resp.data) :
                   /\ resp.data[k] \in MatchingIds(q.where)
                   /\ Rank(resp.data[k], q.where) = (p - 1) * n + k - 1

C2_Witness ==
    /\ ClothesAnswered
    /\ dbQueries[1].skip = 20
    /\ dbQueries[1].take = 10
    /\ Len(resp.data) = 5

\* The parameter values that C3 lists: missing, empty, without any digit,
\* zero, or a minus sign before digits.
FallsBack(value) ==
    \/ value = null
    \/ value = <<>>
    \/ \A i \in 1..Len(value) : ~IsDigit(value[i])
    \/ \A i \in 1..Len(value) : value[i] = "0"
    \/ /\ Len(value) >= 2
       /\ value[1] = "-"
       /\ \A i \in 2..Len(value) : IsDigit(value[i])

\* C3: in GET /api/clothes a page or perPage parameter that is missing,
\* empty, not a number, zero or negative falls back to 1 and 12; the
\* effective page and page size are always >= 1 and the skip is never
\* negative.
C3_Defaults ==
    req.route = "clothes" =>
        /\ FallsBack(req.page) => resp.meta.page = 1
        /\ FallsBack(req.perPage) => resp.meta.perPage = 12
        /\ resp.meta.page >= 1
        /\ resp.meta.perPage >= 1
        /\ dbQueries[1].take = resp.meta.perPage
        /\ dbQueries[1].skip >= 0
        /\ dbQueries[1].skip = (resp.meta.page - 1) * resp.meta.perPage

C3_Witness ==
    /\ ClothesAnswered
    /\ req.page = <<"-","1">>
    /\ req.perPage = <<"0">>
    /\ resp.meta.page = 1
    /\ resp.meta.perPage = 12
    /\ dbQueries[1].skip = 0

\* C4: in GET /api/clothes the category parameter restricts the filter to a
\* category exactly when its upper-cased value is one of the six enum
\* values; an unknown category adds no restriction and no error: the
\* request answers 200.
SixCategories ==
    { <<"T","O","P">>, <<"B","O","T","T","O","M">>, <<"O","U","T","E","R","W","E","A","R">>, <<"F","O","O","T","W","E","A","R">>, <<"A","C","C","E","S","S","O","R","Y">>, <<"D","R","E","S","S">> }

UpperCased(value) ==
    [i \in 1..Len(value) |->
        CASE value[i] = "a" -> "A" [] value[i] = "b" -> "B" [] value[i] = "c" -> "C"
          [] value[i] = "d" -> "D" [] value[i] = "e" -> "E" [] value[i] = "f" -> "F"
          [] value[i] = "g" -> "G" [] value[i] = "h" -> "H" [] value[i] = "i" -> "I"
          [] value[i] = "j" -> "J" [] value[i] = "k" -> "K" [] value[i] = "l" -> "L"
          [] value[i] = "m" -> "M" [] value[i] = "n" -> "N" [] value[i] = "o" -> "O"
          [] value[i] = "p" -> "P" [] value[i] = "q" -> "Q" [] value[i] = "r" -> "R"
          [] value[i] = "s" -> "S" [] value[i] = "t" -> "T" [] value[i] = "u" -> "U"
          [] value[i] = "v" -> "V" [] value[i] = "w" -> "W" [] value[i] = "x" -> "X"
          [] value[i] = "y" -> "Y" [] value[i] = "z" -> "Z" [] OTHER -> value[i]]

C4_Category ==
    req.route = "clothes" =>
        LET where == dbQueries[1].where
            known == req.category # null /\ UpperCased(req.category) \in SixCategories
        IN  /\ resp.status = 200
            /\ resp.error = ""
            /\ known => where.category = UpperCased(req.category)
            /\ ~known => where.category = undefined
            /\ known => \A k \in 1..Len(resp.data) :
                           catalog[resp.data[k]].category = UpperCased(req.category)
            /\ ~known =>
                   resp.meta.total =
                       Cardinality({i \in 1..Len(catalog) :
                           \A c \in 1..Len(where.AND) :
                               ConditionHolds(catalog[i], where.AND[c])})

C4_Witness ==
    /\ ClothesAnswered
    /\ req.category = <<"f","o","o","t","w","e","a","r">>
    /\ dbQueries[1].where.category = <<"F","O","O","T","W","E","A","R">>
    /\ Len(resp.data) = 1

C4_WitnessUnknown ==
    /\ ClothesAnswered
    /\ req.category = <<"h","a","t">>
    /\ dbQueries[1].where.category = undefined
    /\ resp.meta.total > 0


(***************************************************************************)
(* Properties of POST /api/ai/query.                                       *)
(***************************************************************************)

\* The Content-Type of the request names JSON.
NamesJson(contentType) ==
    /\ contentType # null
    /\ \E i \in 1..Len(contentType) : \E j \in i..Len(contentType) :
           SubSeq(contentType, i, j) = <<"a","p","p","l","i","c","a","t","i","o","n","/","j","s","o","n">>

\* The body carries a prompt: a string with a character that is no white
\* space.
HasPrompt(body) ==
    /\ body.kind = "object"
    /\ body.members.prompt.t = "string"
    /\ \E i \in 1..Len(body.members.prompt.s) :
           body.members.prompt.s[i] \notin {" ", "\t", "\n"}

NothingContacted == aiCalls = 0 /\ dbQueries = <<>>

\* C5: POST /api/ai/query answers 415 with the error "Content-Type must be
\* application/json" whenever the Content-Type does not contain
\* application/json, before reading the body and without a call to the
\* hosted endpoint or the datastore.
C5_ContentType ==
    (req.route = "query" /\ ~NamesJson(req.contentType)) =>
        /\ resp.status = 415
        /\ resp.error = "Content-Type must be application/json"
        /\ ~bodyRead
        /\ NothingContacted

C5_Witness ==
    /\ req.route = "query"
    /\ req.contentType = <<"A","p","p","l","i","c","a","t","i","o","n","/","J","S","O","N">>
    /\ HasPrompt(req.body)
    /\ resp.status = 415
    /\ ~bodyRead

\* C6: POST /api/ai/query answers 400 with the error "Missing prompt" whenever the
\* JSON body has no prompt, a prompt that is no string, an empty or
\* white-space prompt, or is no JSON; neither the hosted endpoint nor the
\* datastore is contacted.
C6_MissingPrompt ==
    (req.route = "query" /\ NamesJson(req.contentType) /\ ~HasPrompt(req.body)) =>
        /\ resp.status = 400
        /\ resp.error = "Missing prompt"
        /\ NothingContacted

\* What holds of such a request in every case: no answer of success, and
\* nothing contacted.
C6_Rejected ==
    (req.route = "query" /\ NamesJson(req.contentType) /\ ~HasPrompt(req.body)) =>
        /\ resp.status \in {400, 500}
        /\ resp.status = 400 => resp.error = "Missing prompt"
        /\ resp.status = 500 => (resp.unhandled /\ req.body.kind = "null")
        /\ NothingContacted

\* The body that is the JSON document null: the handler ends with an exception
\* nothing catches, and the answer is the framework's 500.
C6_WitnessNullBody ==
    /\ req.route = "query"
    /\ NamesJson(req.contentType)
    /\ req.body.kind = "null"
    /\ bodyRead
    /\ resp.unhandled
    /\ resp.status = 500

C6_WitnessBlankPrompt ==
    /\ req.route = "query"
    /\ req.body.kind = "object"
    /\ req.body.members.prompt.t = "string"
    /\ Len(req.body.members.prompt.s) > 0
    /\ resp.status = 400
    /\ resp.error = "Missing prompt"

\* The extraction fails upstream: no API key, or a status that is not OK.
FailsUpstream(r) ==
    \/ ~r.apiKey
    \/ r.upstream.kind = "response" /\ (r.upstream.status < 200 \/ r.upstream.status > 299)

\* C7: POST /api/ai/query answers 502 with {error} whenever the filter
\* extraction fails upstream (no OPENAI_API_KEY, or a non-OK status of the
\* hosted endpoint); the datastore is then never queried and the endpoint is
\* called at most once.
C7_BadGateway ==
    /\ (req.route = "query" /\ NamesJson(req.contentType) /\ HasPrompt(req.body)
            /\ FailsUpstream(req)) =>
           /\ resp.status = 502
           /\ resp.error # ""
           /\ ~req.apiKey => resp.error = "OPENAI_API_KEY is not configured"
           /\ ~req.apiKey => aiCalls = 0
    /\ (req.route = "query" /\ resp.status = 502) =>
           /\ dbQueries = <<>>
           /\ aiCalls <= 1

C7_Witness ==
    /\ req.route = "query"
    /\ req.apiKey
    /\ req.upstream = UpstreamStatus(500)
    /\ resp.status = 502
    /\ aiCalls = 1
    /\ dbQueries = <<>>

C7_WitnessNoKey ==
    /\ req.route = "query"
    /\ ~req.apiKey
    /\ resp.status = 502
    /\ aiCalls = 0

\* The condition list of a filter that has at most a colour from the
\* request in it.
OnlySeedColor(color) ==
    IF color.t = "string" /\ Len(color.s) > 0
    THEN <<ColorCondition(toLowerCase(color.s))>>
    ELSE <<>>

\* C8: when the hosted endpoint answers OK with a message content that is
\* absent or no JSON object, POST /api/ai/query takes the extraction as
\* empty: it queries the datastore and answers 200, and its filter has no
\* condition from the extraction (none at all without a colour in the
\* request).
C8_MalformedContent ==
    (req.route = "query" /\ NamesJson(req.contentType) /\ HasPrompt(req.body)
         /\ req.apiKey /\ req.upstream \in MalformedCompletions) =>
        /\ resp.status = 200
        /\ aiCalls = 1
        /\ Len(dbQueries) = 1
        /\ dbQueries[1].where.category = undefined
        /\ dbQueries[1].where.AND = OnlySeedColor(req.body.members.color)
        /\ req.body.members.color.t \in {"undefined", "null"} =>
               resp.meta.total = Len(catalog)

C8_Witness ==
    /\ req.route = "query"
    /\ req.upstream = Completion(notValidJson)
    /\ req.body.members.color = JUndefined
    /\ resp.status = 200
    /\ dbQueries[1].where = EmptyWhere
    /\ resp.meta.total = Len(catalog)
    /\ Len(resp.data) > 0

C8_WitnessTwoObjects ==
    /\ req.route = "query"
    /\ req.upstream = Completion(twoObjects)
    /\ req.body.members.color = JStr(<<"R","e","d">>)
    /\ resp.status = 200
    /\ dbQueries[1].where.AND = <<ColorCondition(<<"r","e","d">>)>>

\* The colours that the colour conditions of a where-input test.
ColorsOf(where) ==
    { where.AND[i].clauses[1].s :
        i \in { j \in 1..Len(where.AND) :
                  /\ where.AND[j].isOr
                  /\ where.AND[j].clauses[1].field = "primaryColor" } }

\* The colour that the extraction of the request yields (null or undefined
\* when it yields none).
ExtractedColor(r) == extractFiltersWithOpenAI(r.apiKey, r.upstream).value.color

\* C9: in POST /api/ai/query the colour of the request body has precedence
\* over the extracted colour: the colour condition is built from the
\* lower-cased colour of the request when it has one, and from the extracted
\* colour only when the colour of the request is absent or null.
C9_SeedColor ==
    (req.route = "query" /\ resp.status = 200) =>
        LET seed  == req.body.members.color
            where == dbQueries[1].where
        IN  /\ (seed.t = "string" /\ Len(seed.s) > 0) =>
                   /\ ColorsOf(where) = {toLowerCase(seed.s)}
                   /\ where.AND[1] = ColorCondition(toLowerCase(seed.s))
            /\ (seed.t \in {"undefined", "null"} /\ Truthy(ExtractedColor(req))) =>
                   /\ ColorsOf(where) = {toLowerCase(ExtractedColor(req))}
                   /\ where.AND[1] = ColorCondition(toLowerCase(ExtractedColor(req)))
            /\ (seed.t \in {"undefined", "null"} /\ ~Truthy(ExtractedColor(req))) =>
                   ColorsOf(where) = {}
            /\ (seed.t = "string" /\ Len(seed.s) = 0) => ColorsOf(where) = {}

C9_Witness ==
    /\ req.route = "query"
    /\ resp.status = 200
    /\ req.body.members.color = JStr(<<"R","e","d">>)
    /\ req.upstream = Completion(colorInProse)
    /\ ExtractedColor(req) = <<"b","l","u","e">>
    /\ ColorsOf(dbQueries[1].where) = {<<"r","e","d">>}

C9_WitnessExtracted ==
    /\ req.route = "query"
    /\ resp.status = 200
    /\ req.body.members.color = JNull
    /\ req.upstream = Completion(colorInProse)
    /\ ColorsOf(dbQueries[1].where) = {<<"b","l","u","e">>}
    /\ resp.data = <<1>>

\* C10: every successful POST /api/ai/query whose body has the positive
\* integers p and n as page and perPage queries the datastore with
\* skip = (p - 1) * n and take = n and answers meta = {page: p, perPage: n,
\* total, totalPages: max(1, ceil(total / n))}; a page or perPage that is
\* absent or no number is 1 and 12.
C10_QueryPaging ==
    (req.route = "query" /\ resp.status = 200) =>
        LET m == req.body.members
            p == IF m.page.t = "number" THEN m.page.n ELSE 1
            n == IF m.perPage.t = "number" THEN m.perPage.n ELSE 12
            q == dbQueries[1]
            meta == resp.meta
            inSlice == {id \in MatchingIds(q.where) :
                           /\ Rank(id, q.where) >= (p - 1) * n
                           /\ Rank(id, q.where) < p * n}
        IN  /\ p >= 1 /\ n >= 1
            /\ Len(dbQueries) = 1
            /\ q.skip = (p - 1) * n
            /\ q.take = n
            /\ meta.page = p
            /\ meta.perPage = n
            /\ meta.total = Cardinality(MatchingIds(q.where))
            /\ meta.totalPages.kind = "finite"
            /\ meta.totalPages.n >= 1
            /\ meta.totalPages.n * n >= meta.total
            /\ meta.totalPages.n > 1 => (meta.totalPages.n - 1) * n < meta.total
            /\ Len(resp.data) = Cardinality(inSlice)
            /\ \A k \in 1..Len(resp.data) :
                   /\ resp.data[k] \in MatchingIds(q.where)
                   /\ Rank(resp.data[k], q.where) = (p - 1) * n + k - 1

C10_Witness ==
    /\ req.route = "query"
    /\ resp.status = 200
    /\ req.body.members.page = JNum(2)
    /\ req.body.members.perPage = JNum(20)
    /\ dbQueries[1].skip = 20
    /\ dbQueries[1].take = 20
    /\ resp.meta.total = 25
    /\ resp.meta.totalPages = Num(2)
    /\ Len(resp.data) = 5

C10_WitnessDefaults ==
    /\ req.route = "query"
    /\ resp.status = 200
    /\ req.body.members.page = JStr(<<"2">>)
    /\ req.body.members.perPage = JUndefined
    /\ resp.meta.page = 1
    /\ resp.meta.perPage = 12

\* The category that the extraction of the request yields.
ExtractedCategory(r) == extractFiltersWithOpenAI(r.apiKey, r.upstream).value.category

\* The category of a request: that of its body or, failing that, the
\* extracted one, in upper case ("" when there is none).
CategoryOf(r) ==
    LET seed == r.body.members.category
    IN  IF seed.t = "string" THEN UpperCased(seed.s)
        ELSE IF seed.t \in {"undefined", "null"} /\ Truthy(ExtractedCategory(r))
             THEN UpperCased(ExtractedCategory(r))
        ELSE <<>>

\* C11: in POST /api/ai/query, when the category of the request body or,
\* failing that, the extracted category is one of the six enum values
\* (compared without regard to case), the filter restricts the results to
\* that category; a missing or unknown category adds no restriction.
C11_QueryCategory ==
    (req.route = "query" /\ resp.status = 200) =>
        IF CategoryOf(req) \in SixCategories
        THEN /\ dbQueries[1].where.category = CategoryOf(req)
             /\ \A k \in 1..Len(resp.data) :
                    catalog[resp.data[k]].category = CategoryOf(req)
        ELSE dbQueries[1].where.category = undefined

\* What the handler does: no request restricts the category.
C11_NoRestriction ==
    (req.route = "query" /\ resp.status = 200) =>
        dbQueries[1].where.category = undefined

\* A request for the tops that is answered with every row of the catalogue.
C11_WitnessIgnored ==
    /\ req.route = "query"
    /\ resp.status = 200
    /\ req.body.members.category = JStr(<<"t","o","p">>)
    /\ req.upstream = Completion(emptyObject)
    /\ Len(catalog) = 6
    /\ resp.meta.total = 6
    /\ \E k \in 1..Len(resp.data) : catalog[resp.data[k]].category = <<"F","O","O","T","W","E","A","R">>

(***************************************************************************)
(* Properties of POST /api/upload.                                         *)
(***************************************************************************)

\* The Content-Type of the request names a form.
NamesMultipart(contentType) ==
    /\ contentType # null
    /\ \E i \in 1..Len(contentType) : \E j \in i..Len(contentType) :
           SubSeq(contentType, i, j) = <<"m","u","l","t","i","p","a","r","t","/","f","o","r","m","-","d","a","t","a">>

FourImageTypes == { <<"i","m","a","g","e","/","j","p","e","g">>, <<"i","m","a","g","e","/","j","p","g">>, <<"i","m","a","g","e","/","p","n","g">>, <<"i","m","a","g","e","/","w","e","b","p">> }

\* The request passes every check of the handler.
WellFormed(r) ==
    /\ NamesMultipart(r.contentType)
    /\ r.formParses
    /\ r.file.isFile
    /\ r.file.size > 0
    /\ r.file.size <= 4718592
    /\ r.file.type \in FourImageTypes

Rejected(status, error) ==
    /\ resp.status = status
    /\ resp.error = error
    /\ ~resp.unhandled

C12_WitnessLargest ==
    /\ req.route = "upload"
    /\ req.file.size = 4718592
    /\ req.file.type = <<"i","m","a","g","e","/","w","e","b","p">>
    /\ resp.status = 200
    /\ Len(catalog) = 1

C12_WitnessNotAFile ==
    /\ req.route = "upload"
    /\ NamesMultipart(req.contentType)
    /\ ~req.file.isFile
    /\ req.file.size > 4718592
    /\ Rejected(400, "Missing file")

\* The handler takes an upload in this step.
Uploads == req.route = "none" /\ req'.route = "upload"

\* C13: when the datastore write of POST /api/upload fails, the handler
\* answers 500 with the error 'Upload failed' and the message of the failure
\* as details, and throws nothing; no clothing item and no image of that
\* request exist afterwards.
C13_UploadFailed ==
    [][ (Uploads /\ WellFormed(req') /\ req'.dbError # "") =>
            /\ resp'.status = 500
            /\ resp'.error = "Upload failed"
            /\ resp'.details = req'.dbError
            /\ ~resp'.unhandled
            /\ catalog' = catalog ]_vars

C13_Witness ==
    /\ req.route = "upload"
    /\ req.dbError = "Unique constraint failed"
    /\ resp.status = 500
    /\ resp.details = "Unique constraint failed"
    /\ Cardinality(storage) = 2
    /\ Len(catalog) = 7

\* The vision call of the request yields nothing.
NoTags(r) == ~r.apiKey \/ r.upstream \in FailingVisions \cup EmptyVisions

C14_WitnessTagged ==
    /\ req.route = "upload"
    /\ req.apiKey
    /\ req.upstream = Completion(garment)
    /\ resp.status = 200
    /\ Len(catalog) = 1
    /\ catalog[1].category = <<"D","R","E","S","S">>
    /\ catalog[1].primaryColor = <<"r","e","d">>
    /\ catalog[1].metadata # <<>>

(***************************************************************************)
(* List requests that overlap with uploads.  A list handler passes         *)
(* findMany and count to prisma.$transaction as an array: the ORM sends    *)
(* the two statements one after the other inside one transaction of the    *)
(* datastore.  No handler sets an isolation level, so the transaction runs *)
(* at the level of the datastore, which for PostgreSQL is READ COMMITTED:  *)
(* each statement sees the rows that were committed before that statement  *)
(* began.                                                                  *)
(***************************************************************************)
\* The rows that the uploads of ConcurrentSpec may bring the catalog to.
MaxRows == 8

\* The transaction after its first statement, the findMany.
FirstStatement(rows, where, page, pageSize) ==
    [open |-> TRUE, where |-> where, page |-> page, pageSize |-> pageSize,
     skip |-> (page - 1) * pageSize,
     items |-> Ids(findMany(rows, where, (page - 1) * pageSize, pageSize))]

\* GET /api/clothes up to the first statement of its transaction.
BeginClothes(r) ==
    LET page     == parseNumber(r.page, 1)
        pageSize == parseNumber(r.perPage, DEFAULT_PAGE_SIZE)
        search   == IF IsNullish(r.search) THEN r.q ELSE r.search
        where    == ClothesWhere(r.category, r.color, search)
    IN  /\ req.route = "none"
        /\ (page - 1) * pageSize >= 0
        /\ req' = r
        /\ tx' = FirstStatement(catalog, where, page, pageSize)
        /\ bodyRead' = FALSE
        /\ aiCalls' = 0
        /\ UNCHANGED <<catalog, storage, now, resp, dbQueries, browser>>

\* POST /api/ai/query up to the first statement of its transaction.
BeginQuery(r) ==
    LET m          == Destructure(r.body)
        page       == bodyNumber(m.page, 1)
        pageSize   == bodyNumber(m.perPage, DEFAULT_PAGE_SIZE)
        extraction == extractFiltersWithOpenAI(r.apiKey, r.upstream)
        where      == QueryWhere(AsNullableString(m.color), extraction.value)
    IN  /\ req.route = "none"
        /\ acceptsJson(Coalesce(r.contentType, <<>>))
        /\ r.body.kind # "null"
        /\ JTruthy(m.prompt)
        /\ m.prompt.t = "string"
        /\ Len(trim(m.prompt.s)) > 0
        /\ ~extraction.threw
        /\ (page - 1) * pageSize >= 0
        /\ req' = r
        /\ tx' = FirstStatement(catalog, where, page, pageSize)
        /\ bodyRead' = TRUE
        /\ aiCalls' = extraction.calls
        /\ UNCHANGED <<catalog, storage, now, resp, dbQueries, browser>>

\* The second statement, the count, and the response built from the two.
FinishList ==
    LET total == count(catalog, tx.where)
    IN  /\ tx.open
        /\ resp' = ListResponse(tx.items,
                       [page |-> tx.page, perPage |-> tx.pageSize,
                        total |-> total,
                        totalPages |-> max1(ceilDiv(total, tx.pageSize))])
        /\ dbQueries' = << [where |-> tx.where, skip |-> tx.skip,
                            take |-> tx.pageSize] >>
        /\ tx' = NoTransaction
        /\ UNCHANGED <<catalog, storage, now, req, bodyRead, aiCalls, browser>>

\* The write of an upload that another request is making: it commits at
\* any moment, also between the two statements of a list transaction.
ConcurrentUpload(r) ==
    LET url      == publicUrl(r.blobToken, now, r.file.name)
        analyzed == analyzeImageWithVision(r.apiKey, r.upstream)
        created  == NewItem(Len(catalog) + 1, itemName(r.name), url,
                            analyzed.vision)
    IN  /\ Len(catalog) < MaxRows
        /\ Rejection(r) = NoResponse
        /\ storage' = storage \cup {url}
        /\ catalog' = clothingItem_create(catalog, created, r.dbError).rows
        /\ UNCHANGED <<now, req, resp, bodyRead, dbQueries, aiCalls, tx, browser>>

ConcurrentNext ==
    \/ \E r \in ClothesRequests : BeginClothes(r)
    \/ \E r \in QueryRequests : BeginQuery(r)
    \/ FinishList
    \/ \E r \in UploadRequests : ConcurrentUpload(r)
    \/ Respond

ConcurrentSpec == Init /\ [][ConcurrentNext]_vars

\* The rows that a list response leaves out before its page.
Skipped == (resp.meta.page - 1) * resp.meta.perPage

Listed == req.route \in {"clothes", "query"} /\ resp.status = 200

\* C15: under any interleaving with uploads, the data and the total of a
\* list response come from one state of the datastore, so the response
\* holds min(perPage, max(0, total - skip)) items.
C15_OneSnapshot ==
    Listed =>
        Len(resp.data) = Min(resp.meta.perPage, Max(0, resp.meta.total - Skipped))

\* What the two statements do guarantee, uploads only adding rows: the
\* response never holds more items than its total allows.
C15_AtMost ==
    Listed =>
        Len(resp.data) <= Min(resp.meta.perPage, Max(0, resp.meta.total - Skipped))

\* A response whose data is the whole catalog as it was at the findMany and
\* whose total counts a row that an upload committed before the count.
C15_WitnessTorn ==
    /\ Listed
    /\ resp.meta.page = 1
    /\ Len(resp.data) < resp.meta.perPage
    /\ resp.meta.total = Len(resp.data) + 1
    /\ Len(catalog) = resp.meta.total

(***************************************************************************)
(* The page in the browser: ClothingExplorer with the Header and its       *)
(* UploadModal.  Time passes in ticks of 100 ms.  A step is one event with *)
(* the render and the effects that follow it: a handler of the user, a     *)
(* timer that fires, or a fetch that settles.                              *)
(***************************************************************************)
PAGE_SIZE == 12

\* The 500 ms of the debounce timer, the 500 ms of minDisplayTime and the
\* 300 ms of the header's timer, in ticks.
DebounceTicks == 5

MinDisplayTicks == 5

HeaderTicks == 3

\* The events that the user causes in a behaviour of ExplorerSpec.
MaxEvents == 2

\* The texts that the user types.
Texts == { <<>>, <<" ">>, <<"t","e","e">> }

NoError == <<>>

\* The request of a fetch: GET /api/clothes with its query string, or POST
\* /api/ai/query with its JSON body.
NoBody == Body("none", JUndefined, JUndefined, JUndefined, JUndefined)

ListFetch(page) ==
    [method |-> "GET", url |-> "/api/clothes",
     query |-> [page |-> numberToString(page),
                perPage |-> numberToString(PAGE_SIZE)],
     contentType |-> null, body |-> NoBody]

QueryFetch(search, page) ==
    [method |-> "POST", url |-> "/api/ai/query",
     query |-> [page |-> null, perPage |-> null],
     contentType |-> applicationJson,
     body |-> ObjectBody(JStr(search), JNum(page), JNum(PAGE_SIZE), JUndefined)]

\* RequestFor without the trim.
RequestFor_noTrim(f) ==
    IF Len(f.search) = 0 THEN ListFetch(f.page)
    ELSE QueryFetch(f.search, f.page)

\* The request that run() makes for the filters f.
RequestFor(f) ==
    IF Len(trim(f.search)) = 0 THEN ListFetch(f.page)
    ELSE QueryFetch(f.search, f.page)

\* The answer of the server to a request of the explorer, the hosted
\* endpoint behaving as upstream.
Answer(rows, q, upstream) ==
    IF q.method = "GET"
    THEN ListTransaction(rows, ClothesWhere(null, null, null),
                         parseNumber(q.query.page, 1),
                         parseNumber(q.query.perPage, DEFAULT_PAGE_SIZE)).response
    ELSE LET m          == Destructure(q.body)
             extraction == extractFiltersWithOpenAI(TRUE, upstream)
             where      == QueryWhere(AsNullableString(m.color), extraction.value)
         IN  IF ~acceptsJson(Coalesce(q.contentType, <<>>))
             THEN ErrorResponse(415, "Content-Type must be application/json")
             ELSE IF \/ ~JTruthy(m.prompt)
                     \/ m.prompt.t # "string"
                     \/ Len(trim(m.prompt.s)) = 0
             THEN ErrorResponse(400, "Missing prompt")
             ELSE IF extraction.threw
             THEN ErrorResponse(502, extraction.message)
             ELSE ListTransaction(rows, where, bodyNumber(m.page, 1),
                                  bodyNumber(m.perPage, DEFAULT_PAGE_SIZE)).response

\* What the hosted endpoint does for a search of the explorer.
ExplorerUpstreams ==
    { Completion(emptyObject), Completion(searchOnly), UpstreamStatus(500) }

\* The hosted endpoint has no part in a request of the list.
UpstreamsOf(q) ==
    IF q.method = "GET" THEN { UpstreamNetworkError } ELSE ExplorerUpstreams

\* The catalog with n more uploads.
RECURSIVE Uploaded(_, _)
Uploaded(rows, n) ==
    IF n = 0 THEN rows
    ELSE LET before == Uploaded(rows, n - 1)
         IN  Append(before,
                    NewItem(Len(before) + 1, itemName(null),
                            publicUrl(FALSE, 0, aPhoto.name), EmptyVision))

\* A catalog of two pages.
ExplorerCatalog == Uploaded(WithIds(clothingItems), 7)

\* The page that the server renders: the first PAGE_SIZE items and the
\* total.
InitialData(rows) ==
    ListTransaction(rows, EmptyWhere, 1, PAGE_SIZE).response

\* controller.abort() without effect.
abort_ignored(runs) == runs

\* controller.abort() in the cleanup of the fetch effect: the fetches in
\* flight reject with an AbortError; none stays in flight.
abort(runs) == <<>>

\* The debounce effect that leaves a pending timer alone.
debounceEffect_keepsPending(timer) ==
    IF timer >= 0 THEN timer ELSE DebounceTicks

\* The debounce effect, run after searchInput changed: it clears the
\* pending timer and sets a new one.
debounceEffect(timer) == DebounceTicks

\* The fetches of runs that are no longer in flight in left.
Aborted(runs, left) ==
    SelectSeq(runs, LAMBDA r : \A j \in DOMAIN left : left[j].id # r.id)

\* The waits that the finally blocks of the runs start.
Waits(runs) ==
    { MinDisplayTicks - runs[i].elapsed :
          i \in { j \in DOMAIN runs : runs[j].elapsed < MinDisplayTicks } }

\* Whether the finally block of one of the runs has nothing to wait for.
Overdue(runs) ==
    \E i \in DOMAIN runs : runs[i].elapsed >= MinDisplayTicks

Run(id, f) ==
    [id |-> id, filters |-> f, request |-> RequestFor(f), elapsed |-> 0]

\* Skips without the test of refreshTrigger.
Skips_ignoresTrigger(initial, f, rt) ==
    initial /\ f.page = 1 /\ Len(f.search) = 0

\* Whether the fetch effect returns without a fetch: the explorer shows
\* the initial data, on page 1, without a search and before any refresh.
Skips(initial, f, rt) ==
    initial /\ f.page = 1 /\ Len(f.search) = 0 /\ rt = 0

\* The fetch effect, run after filters, refreshTrigger or hasInitialData
\* changed, for the filters f and the trigger rt: its cleanup aborts the
\* fetch of the run before; unless it skips, run() sets the flags, clears
\* the error and hasInitialData, and fetches.  Clearing hasInitialData
\* runs the effect once more, which aborts the fetch just made and makes
\* it again.  The finally block of an aborted run waits for the rest of
\* minDisplayTime and then clears both flags; with nothing to wait for it
\* clears them right after the new run has set them.
FetchEffect(f, rt) ==
    LET skips   == Skips(hasInitialData, f, rt)
        left    == abort(fetches)
        first   == <<Run(issued + 1, f)>>
        again   == IF hasInitialData THEN <<Run(issued + 2, f)>> ELSE <<>>
        kept    == IF hasInitialData THEN abort(first) ELSE first
        aborted == Aborted(fetches, left)
                   \o (IF skips THEN <<>> ELSE Aborted(first, kept \o again))
    IN  /\ spinners' = spinners \cup Waits(aborted)
        /\ IF skips
           THEN /\ fetches' = left
                /\ isLoading' = (isLoading /\ ~Overdue(aborted))
                /\ isLoadingMore' = (isLoadingMore /\ ~Overdue(aborted))
                /\ UNCHANGED <<issued, shownError, hasInitialData>>
           ELSE /\ issued' = issued + Len(first) + Len(again)
                /\ fetches' = left \o kept \o again
                /\ isLoading' = ((f.page = 1 \/ isLoading) /\ ~Overdue(aborted))
                /\ isLoadingMore' =
                       ((f.page # 1 \/ isLoadingMore) /\ ~Overdue(aborted))
                /\ shownError' = NoError
                /\ hasInitialData' = FALSE

\* The explorer as it is after its mount, on a page that the server
\* rendered with initialData or, as in the tests, without.
MountedOn(rows) ==
    /\ catalog = rows
    /\ storage = {}
    /\ now = 0
    /\ req = NoRequest
    /\ resp = NoResponse
    /\ bodyRead = FALSE
    /\ dbQueries = <<>>
    /\ aiCalls = 0
    /\ tx = NoTransaction
    /\ mounted = TRUE
    /\ searchInput = <<>>
    /\ filters = [search |-> <<>>, page |-> 1]
    /\ hasInitialData \in BOOLEAN
    /\ shownItems = IF hasInitialData THEN InitialData(catalog).data ELSE <<>>
    /\ totalPages = IF hasInitialData THEN InitialData(catalog).meta.totalPages
                    ELSE Num(1)
    /\ shownTotal = IF hasInitialData THEN InitialData(catalog).meta.total ELSE 0
    /\ isLoading = ~hasInitialData
    /\ isLoadingMore = FALSE
    /\ shownError = NoError
    /\ refreshTrigger = 0
    /\ debounceTimer = DebounceTicks
    /\ issued = IF hasInitialData THEN 0 ELSE 1
    /\ fetches = IF hasInitialData THEN <<>> ELSE <<Run(1, filters)>>
    /\ spinners = {}
    /\ isUploadModalOpen = FALSE
    /\ upload = NoRequest
    /\ modalError = NoError
    /\ headerTimer = -1
    /\ events = 0

ExplorerInit == MountedOn(ExplorerCatalog)

\* handleSearchChange, handleClearSearch and the example queries: the text
\* of the search box changes, and the debounce effect runs.
Type(text) ==
    /\ mounted
    /\ events < MaxEvents
    /\ text # searchInput
    /\ searchInput' = text
    /\ debounceTimer' = debounceEffect(debounceTimer)
    /\ events' = events + 1
    /\ UNCHANGED <<server, mounted, filters, shownItems, totalPages, shownTotal,
                   isLoading, isLoadingMore, shownError, refreshTrigger,
                   hasInitialData, issued, fetches, spinners,
                   isUploadModalOpen, upload, modalError, headerTimer>>

\* The debounce timer fires.
DebounceFires ==
    /\ mounted
    /\ debounceTimer = 0
    /\ debounceTimer' = -1
    /\ filters' = [filters EXCEPT !.search = searchInput, !.page = 1]
    /\ FetchEffect(filters', refreshTrigger)
    /\ UNCHANGED <<server, mounted, searchInput, shownItems, totalPages,
                   shownTotal, refreshTrigger, isUploadModalOpen, upload,
                   modalError, headerTimer, events>>

\* handleSearchSubmit.
Submit ==
    /\ mounted
    /\ events < MaxEvents
    /\ filters' = [filters EXCEPT !.search = searchInput, !.page = 1]
    /\ FetchEffect(filters', refreshTrigger)
    /\ events' = events + 1
    /\ UNCHANGED <<server, mounted, searchInput, shownItems, totalPages,
                   shownTotal, refreshTrigger, debounceTimer,
                   isUploadModalOpen, upload, modalError, headerTimer>>

\* The element that the IntersectionObserver watches is rendered.
Sentinel ==
    ~isLoading /\ Len(shownItems) > 0 /\ Len(shownItems) < shownTotal

\* loadMore, called when the watched element scrolls into view.
LoadMore ==
    /\ mounted
    /\ events < MaxEvents
    /\ Sentinel
    /\ ~(isLoading \/ isLoadingMore \/ filters.page >= totalPages.n)
    /\ filters' = [filters EXCEPT !.page = filters.page + 1]
    /\ FetchEffect(filters', refreshTrigger)
    /\ events' = events + 1
    /\ UNCHANGED <<server, mounted, searchInput, shownItems, totalPages,
                   shownTotal, refreshTrigger, debounceTimer,
                   isUploadModalOpen, upload, modalError, headerTimer>>

\* The header's timer fires: the header dispatches wardrobo:upload-success,
\* and handleUploadSuccess of a mounted explorer runs.
UploadSuccess ==
    /\ headerTimer = 0
    /\ headerTimer' = -1
    /\ UNCHANGED <<server, mounted, shownItems, totalPages, shownTotal,
                   isUploadModalOpen, upload, modalError, events>>
    /\ IF mounted
       THEN /\ searchInput' = <<>>
            /\ debounceTimer' = IF searchInput # <<>>
                                THEN debounceEffect(debounceTimer)
                                ELSE debounceTimer
            /\ filters' = [search |-> <<>>, page |-> 1]
            /\ refreshTrigger' = refreshTrigger + 1
            /\ FetchEffect(filters', refreshTrigger')
       ELSE UNCHANGED <<searchInput, debounceTimer, filters, refreshTrigger,
                        isLoading, isLoadingMore, shownError, hasInitialData,
                        issued, fetches, spinners>>

\* The message of the error that the catch block of run() shows.
RequestFailed(status) ==
    <<"Request failed with status ">> \o numberToString(status)

FailedToFetch == <<"Failed to fetch">>

\* setItems that replaces the items whatever the page.
setItems_replaces(prev, data, page) == data

\* setItems of run(): the payload of page 1 replaces the items, that of a
\* later page is appended to them.
setItems(prev, data, page) ==
    IF page > 1 THEN prev \o data ELSE data

\* The fetch of run i settles: the server answers, or the fetch rejects
\* with a network error.
Settle(i, upstream, rejects) ==
    LET run    == fetches[i]
        answer == Answer(catalog, run.request, upstream)
        ok     == ~rejects /\ answer.status \in 200..299
    IN  /\ i \in DOMAIN fetches
        /\ fetches' = SubSeq(fetches, 1, i - 1)
                          \o SubSeq(fetches, i + 1, Len(fetches))
        /\ shownItems' = IF ok
                         THEN setItems(shownItems, answer.data, run.filters.page)
                         ELSE shownItems
        /\ totalPages' = IF ok THEN answer.meta.totalPages ELSE totalPages
        /\ shownTotal' = IF ok THEN answer.meta.total ELSE shownTotal
        /\ shownError' = IF ok THEN shownError
                         ELSE IF rejects THEN FailedToFetch
                         ELSE RequestFailed(answer.status)
        /\ spinners' = spinners \cup Waits(<<run>>)
        /\ isLoading' = (isLoading /\ ~Overdue(<<run>>))
        /\ isLoadingMore' = (isLoadingMore /\ ~Overdue(<<run>>))
        /\ UNCHANGED <<server, mounted, searchInput, filters, refreshTrigger,
                       hasInitialData, debounceTimer, issued,
                       isUploadModalOpen, upload, modalError, headerTimer,
                       events>>

\* The wait of a finally block ends.
SpinnerEnds ==
    /\ 0 \in spinners
    /\ spinners' = spinners \ {0}
    /\ isLoading' = FALSE
    /\ isLoadingMore' = FALSE
    /\ UNCHANGED <<server, mounted, searchInput, filters, shownItems,
                   totalPages, shownTotal, shownError, refreshTrigger,
                   hasInitialData, debounceTimer, issued, fetches,
                   isUploadModalOpen, upload, modalError, headerTimer, events>>

\* 100 ms pass.  Nothing that is due is left waiting.
Tick ==
    /\ debounceTimer # 0
    /\ headerTimer # 0
    /\ 0 \notin spinners
    /\ debounceTimer' = IF debounceTimer > 0 THEN debounceTimer - 1 ELSE -1
    /\ headerTimer' = IF headerTimer > 0 THEN headerTimer - 1 ELSE -1
    /\ spinners' = { s - 1 : s \in spinners }
    /\ fetches' = [i \in DOMAIN fetches |->
                      [fetches[i] EXCEPT
                           !.elapsed = Min(@ + 1, MinDisplayTicks)]]
    /\ UNCHANGED <<server, mounted, searchInput, filters, shownItems,
                   totalPages, shownTotal, isLoading, isLoadingMore,
                   shownError, refreshTrigger, hasInitialData, issued,
                   isUploadModalOpen, upload, modalError, events>>

\* The explorer unmounts: the cleanups of its effects clear the debounce
\* timer, remove the listener and abort the fetch.  What the finally block
\* of an aborted run sets on an unmounted component is lost.
Unmount ==
    /\ mounted
    /\ events < MaxEvents
    /\ mounted' = FALSE
    /\ debounceTimer' = -1
    /\ fetches' = abort(fetches)
    /\ spinners' = {}
    /\ events' = events + 1
    /\ UNCHANGED <<server, searchInput, filters, shownItems, totalPages,
                   shownTotal, isLoading, isLoadingMore, shownError,
                   refreshTrigger, hasInitialData, issued, isUploadModalOpen,
                   upload, modalError, headerTimer>>

\* The upload button of the header.  The user opens the modal again only
\* after the event of the upload before.
OpenModal ==
    /\ ~isUploadModalOpen
    /\ upload = NoRequest
    /\ headerTimer = -1
    /\ events < MaxEvents
    /\ isUploadModalOpen' = TRUE
    /\ events' = events + 1
    /\ UNCHANGED <<server, mounted, searchInput, filters, shownItems,
                   totalPages, shownTotal, isLoading, isLoadingMore,
                   shownError, refreshTrigger, hasInitialData, debounceTimer,
                   issued, fetches, spinners, upload, modalError, headerTimer>>

\* The files that the user selects in the modal; selected is FALSE
\* when the user selects none.
ModalFiles == { aPhoto, aGif }

\* UploadModal.handleSubmit up to its fetch.
SubmitUpload(selected, file) ==
    /\ isUploadModalOpen
    /\ upload = NoRequest
    /\ events < MaxEvents
    /\ events' = events + 1
    /\ IF ~selected
       THEN /\ modalError' = <<"Please select an image to upload.">>
            /\ upload' = upload
       ELSE /\ modalError' = NoError
            /\ upload' = UploadRequest(multipart, file, null, "")
    /\ UNCHANGED <<server, mounted, searchInput, filters, shownItems,
                   totalPages, shownTotal, isLoading, isLoadingMore,
                   shownError, refreshTrigger, hasInitialData, debounceTimer,
                   issued, fetches, spinners, isUploadModalOpen, headerTimer>>

UploadFailed(status) == <<"Upload failed: ">> \o numberToString(status)

\* The fetch of the modal settles: the server handles the upload, the
\* write to the datastore failing with dbError or not, or the fetch rejects.
\* On an ok response the modal calls onUploadSuccess, with which the header
\* closes the modal and sets its timer, and onClose.
UploadSettles(dbError, rejects) ==
    LET r         == [upload EXCEPT !.dbError = dbError]
        url       == publicUrl(r.blobToken, now, r.file.name)
        rejection == Rejection(r)
        analyzed  == analyzeImageWithVision(r.apiKey, r.upstream)
        created   == NewItem(Len(catalog) + 1, itemName(r.name), url,
                             analyzed.vision)
        written   == clothingItem_create(catalog, created, r.dbError)
        stored    == ~rejects /\ rejection = NoResponse
        ok        == stored /\ ~written.threw
    IN  /\ upload # NoRequest
        /\ upload' = NoRequest
        /\ catalog' = IF stored THEN written.rows ELSE catalog
        /\ storage' = IF stored THEN storage \cup {url} ELSE storage
        /\ modalError' = IF ok THEN modalError
                         ELSE IF rejects THEN FailedToFetch
                         ELSE IF rejection # NoResponse
                         THEN UploadFailed(rejection.status)
                         ELSE UploadFailed(500)
        /\ isUploadModalOpen' = (isUploadModalOpen /\ ~ok)
        /\ headerTimer' = IF ok THEN HeaderTicks ELSE headerTimer
        /\ UNCHANGED <<now, req, resp, bodyRead, dbQueries, aiCalls, tx,
                       mounted, searchInput, filters, shownItems, totalPages,
                       shownTotal, isLoading, isLoadingMore, shownError,
                       refreshTrigger, hasInitialData, debounceTimer, issued,
                       fetches, spinners, events>>

\* A fetch of the explorer settles: it rejects, or the server answers, the
\* hosted endpoint behaving in one of its ways.
Settles ==
    \E i \in DOMAIN fetches :
        \/ Settle(i, UpstreamNetworkError, TRUE)
        \/ \E upstream \in UpstreamsOf(fetches[i].request) :
               Settle(i, upstream, FALSE)

\* The fetch of the modal settles.
UploadAnswered ==
    \/ UploadSettles("", TRUE)
    \/ \E dbError \in {"", "connection lost"} : UploadSettles(dbError, FALSE)

ExplorerNext ==
    \/ \E text \in Texts : Type(text)
    \/ DebounceFires
    \/ Submit
    \/ LoadMore
    \/ UploadSuccess
    \/ Settles
    \/ SpinnerEnds
    \/ Tick
    \/ Unmount
    \/ OpenModal
    \/ \E selected \in BOOLEAN, file \in ModalFiles : SubmitUpload(selected, file)
    \/ UploadAnswered

ExplorerSpec == ExplorerInit /\ [][ExplorerNext]_vars

\* The explorer in a browser whose timers fire and whose fetches settle,
\* with an answer or with an error.
Progress ==
    \/ Tick
    \/ SpinnerEnds
    \/ DebounceFires
    \/ UploadSuccess
    \/ Settles
    \/ UploadAnswered

FairExplorerSpec == ExplorerSpec /\ WF_vars(Progress)

\* The explorer on a catalog of three pages, when the user only scrolls:
\* the applied search stays empty and the catalog as it is.
ScrollCatalog == Uploaded(WithIds(clothingItems), 2 * PAGE_SIZE - 5)

ScrollNext ==
    \/ LoadMore
    \/ DebounceFires
    \/ Settles
    \/ SpinnerEnds
    \/ Tick

ScrollSpec == MountedOn(ScrollCatalog) /\ [][ScrollNext]_vars

(***************************************************************************)
(* Properties of the explorer.                                             *)
(***************************************************************************)
\* A step in which the text of the search box changes other than by the
\* upload-success event.
InputChanges == searchInput' # searchInput /\ refreshTrigger' = refreshTrigger

\* A step in which the debounce timer fires.
TimerFires == mounted /\ debounceTimer = 0 /\ debounceTimer' = -1 /\ mounted'

\* A step of handleSearchSubmit or of the upload-success event.
SubmitsOrRefreshes ==
    \/ events' = events + 1 /\ searchInput' = searchInput
    \/ refreshTrigger' = refreshTrigger + 1

NonBlank(text) == \E i \in DOMAIN text : ~IsSpace(text[i])

\* A fetch that is a search request for the text.
SearchesFor(run, text) ==
    /\ run.request.method = "POST"
    /\ run.request.url = "/api/ai/query"
    /\ run.request.body.members.prompt = JStr(text)

C16_WitnessRestarted ==
    /\ events = 2
    /\ searchInput = <<"t","e","e">>
    /\ filters.search = <<>>
    /\ debounceTimer = DebounceTicks
    /\ issued = 0

\* The ids of the fetches in flight.
InFlight(runs) == { runs[i].id : i \in DOMAIN runs }

\* At most one fetch is in flight, the one made last, and it asks for the
\* applied filters of a mounted explorer.
OnlyTheLatest(runs, last, f, isMounted) ==
    /\ Len(runs) <= 1
    /\ \A i \in DOMAIN runs :
           runs[i].id = last /\ runs[i].filters = f /\ isMounted

\* A step that writes the results or shows an error.
WritesResults ==
    \/ shownItems' # shownItems
    \/ totalPages' # totalPages
    \/ shownTotal' # shownTotal
    \/ shownError' # shownError /\ shownError' # NoError

\* C17: a change of the filters and an unmount abort the fetch in flight;
\* only a fetch that is in flight writes items, total, totalPages or error,
\* and the fetch in flight is always the one made last, for the applied
\* filters: what is on display never comes from a superseded request.
C17_LatestOnly ==
    [][ /\ (filters' # filters \/ ~mounted') =>
               InFlight(fetches) \cap InFlight(fetches') = {}
        /\ OnlyTheLatest(fetches, issued, filters, mounted)
        /\ OnlyTheLatest(fetches', issued', filters', mounted')
        /\ WritesResults =>
               /\ issued' = issued
               /\ filters' = filters
               /\ issued \in InFlight(fetches)
               /\ issued \notin InFlight(fetches')
      ]_vars

\* The explorer unmounted while the fetch of its mount was in flight: the
\* fetch is gone and has written nothing.
C17_Witness ==
    /\ ~mounted
    /\ issued = 1
    /\ fetches = <<>>
    /\ isLoading
    /\ shownItems = <<>>
    /\ shownError = NoError

\* The results of a second request on display, the first one having been
\* superseded before it wrote anything.
C17_WitnessSuperseded ==
    /\ mounted
    /\ issued = 2
    /\ fetches = <<>>
    /\ filters.search = <<"t","e","e">>
    /\ shownError = NoError
    /\ Len(shownItems) = PAGE_SIZE
    /\ events = 1

\* A request of the plain listing: GET /api/clothes?page=..&perPage=12.
ListsPage(q, page) ==
    /\ q.method = "GET"
    /\ q.url = "/api/clothes"
    /\ parseInt(q.query.page) = Num(page)
    /\ parseInt(q.query.perPage) = Num(12)
    /\ q.body.kind = "none"

\* A request of the search: POST /api/ai/query with the JSON body
\* {prompt, page, perPage: 12}.
QueriesPage(q, prompt, page) ==
    /\ q.method = "POST"
    /\ q.url = "/api/ai/query"
    /\ q.contentType = <<"a","p","p","l","i","c","a","t","i","o","n","/","j","s","o","n">>
    /\ q.body.kind = "object"
    /\ q.body.members.prompt = JStr(prompt)
    /\ q.body.members.page = JNum(page)
    /\ q.body.members.perPage = JNum(12)
    /\ q.body.members.color = JUndefined

\* C18: the applied search text alone chooses the endpoint of a request:
\* the plain listing when it is empty or only whitespace, the search with
\* the text as prompt otherwise, each with the applied page and perPage 12.
C18_Endpoint ==
    \A i \in DOMAIN fetches :
        /\ fetches[i].filters = filters
        /\ IF NonBlank(filters.search)
           THEN QueriesPage(fetches[i].request, filters.search, filters.page)
           ELSE ListsPage(fetches[i].request, filters.page)

\* A search of whitespace only goes to the plain listing.
C18_Witness ==
    /\ Len(fetches) = 1
    /\ filters.search = <<" ">>
    /\ ListsPage(fetches[1].request, 1)

\* The search was cleared with the results of a search on display: the
\* request goes to the plain listing.
C18_WitnessCleared ==
    /\ Len(fetches) = 1
    /\ filters.search = <<>>
    /\ searchInput = <<>>
    /\ refreshTrigger = 0
    /\ ListsPage(fetches[1].request, 1)
    /\ Len(shownItems) > 0
    /\ Len(shownItems) < PAGE_SIZE

\* A search for a text, on its second page.
C18_WitnessSearch ==
    /\ Len(fetches) = 1
    /\ QueriesPage(fetches[1].request, <<"t","e","e">>, 2)

\* The data of the answers that the server may give to the request for the
\* applied filters.
Payloads ==
    { Answer(catalog, RequestFor(filters), upstream).data :
          upstream \in UpstreamsOf(RequestFor(filters)) }

\* Infinite scroll, idle being what "no load is in progress" means: the
\* page only grows by one, in a step that starts idle with the page below
\* totalPages and keeps the search; a response for page 1 replaces the
\* items and one for a later page is appended to them; every change of
\* the applied search, every submit and every upload-success event resets
\* the page to 1.
InfiniteScroll(idle) ==
    /\ filters'.page > filters.page =>
           /\ filters'.page = filters.page + 1
           /\ filters'.search = filters.search
           /\ idle
           /\ filters.page < totalPages.n
    /\ shownItems' # shownItems =>
           \E data \in Payloads :
               shownItems' = IF filters.page = 1 THEN data
                             ELSE shownItems \o data
    /\ (filters'.search # filters.search \/ Submit \/ (mounted /\ UploadSuccess)) =>
           filters'.page = 1

\* C19: a load-more trigger advances the page by exactly one and only when
\* no load is in progress, isLoading and isLoadingMore both false, and the
\* page is below totalPages; responses replace (page 1) or are appended
\* (later pages); search changes, submits and upload-success events reset
\* the page to 1.
C19_InfiniteScroll ==
    [][InfiniteScroll(~isLoading /\ ~isLoadingMore)]_vars

\* Page 2 of the listing was loaded while the initial data was on display:
\* its one item came after the twelve of page 1.
C19_Witness ==
    /\ mounted
    /\ filters = [search |-> <<>>, page |-> 2]
    /\ fetches = <<>>
    /\ shownError = NoError
    /\ shownItems = InitialData(catalog).data
                        \o ListTransaction(catalog, EmptyWhere, 2, PAGE_SIZE).response.data
    /\ Len(shownItems) = Len(catalog)

\* The same statement with "no request is in flight" added to what no load
\* in progress means.  The code does not meet it: the two flags do not say
\* whether a request is in flight.
ScrollsWhenSettled ==
    [][InfiniteScroll(~isLoading /\ ~isLoadingMore /\ fetches = <<>>)]_vars

\* The flags are down while a fetch is in flight: the finally block of a
\* superseded run has cleared them.
C19_WitnessFlagsDown ==
    /\ Len(fetches) = 1
    /\ ~isLoading
    /\ ~isLoadingMore
    /\ Sentinel
    /\ filters.page < totalPages.n

\* The page advanced during the load of page 1 of a search: the request is
\* for page 2 of the search, and what it brings will be appended to the
\* items of the listing that are still on display.
C19_WitnessDuringLoad ==
    /\ filters = [search |-> <<"t","e","e">>, page |-> 2]
    /\ Len(fetches) = 1
    /\ fetches[1].elapsed = 0
    /\ issued = 3
    /\ isLoadingMore
    /\ shownItems = InitialData(catalog).data
    /\ spinners = {}

\* A step in which the modal gets an ok response: the upload wrote its row.
UploadSucceeds ==
    upload # NoRequest /\ upload' = NoRequest /\ Len(catalog') = Len(catalog) + 1

\* A step in which the header dispatches wardrobo:upload-success.
Dispatches == headerTimer = 0 /\ headerTimer' = -1

Unfiltered == [search |-> <<>>, page |-> 1]

\* The explorer shows page 1 of the whole catalog, and no request is out.
ShowsFirstPage ==
    /\ mounted
    /\ fetches = <<>>
    /\ filters = Unfiltered
    /\ shownError = NoError
    /\ shownItems = InitialData(catalog).data
    /\ shownTotal = Len(catalog)

\* Something came between the event and the display: the explorer is gone,
\* a request failed, or the user searched or scrolled again.
Disturbed ==
    \/ ~mounted
    \/ shownError # NoError
    \/ searchInput # <<>>
    \/ filters # Unfiltered

UploadedItems ==
    { i \in DOMAIN catalog :
          \A k \in DOMAIN clothingItems : catalog[i] # WithIds(clothingItems)[k] }

\* The images of a row that are flagged primary.
PrimaryImages(item) ==
    { k \in DOMAIN item.images : item.images[k].isPrimary }

\* C21: every item that POST /api/upload created has exactly one Image,
\* created with the item in the step of the upload, which is primary, has
\* the item's imageUrl (the public URL of the stored file) as its url and
\* the item's name as its alt text; so every uploaded item has at least one
\* image and exactly one primary image.
C21_OneImage ==
    /\ [](\A i \in UploadedItems :
              LET item == catalog[i]
              IN  /\ Len(item.images) = 1
                  /\ item.images[1].isPrimary
                  /\ item.images[1].url = item.imageUrl
                  /\ item.imageUrl \in storage
                  /\ item.images[1].altText = item.name
                  /\ Len(item.images) >= 1
                  /\ Cardinality(PrimaryImages(item)) = 1)
    /\ [][ \A i \in DOMAIN catalog' :
               i \in DOMAIN catalog => catalog'[i] = catalog[i] ]_vars

\* Two uploads after the seed, one with a name and one without.
C21_Witness ==
    /\ Len(catalog) = 8
    /\ UploadedItems = {7, 8}
    /\ catalog[7].name # catalog[8].name
    /\ catalog[8].images[1].altText = <<"S","h","i","r","t">>
    /\ catalog[7].images[1].url # catalog[8].images[1].url

(***************************************************************************)
(* Uploads that the vision call tags, followed by searches for the tags.   *)
(***************************************************************************)
\* A message content that is a JSON object with one string member.
OneMember(name, value) ==
    << Tok("{"), Member(name, JStr(value)), Tok("}") >>

\* An upload of a photo whose vision call answers with the content.
TagUpload(content) ==
    TaggedUpload(multipart, TRUE, aPhoto, null, TRUE, Completion(content), "")

\* A search whose extraction is the content.
TagQuery(content) ==
    QueryRequest(applicationJson,
                 ObjectBody(aPrompt, JUndefined, JUndefined, JUndefined),
                 TRUE, Completion(content))

\* Graphic descriptions of the vision call: a word, words in capitals with
\* spaces around, words with a comma and stop words, and a blank one.
Descriptions ==
    { <<"S","n","a","k","e">>, <<" ","S","t","a","r"," ","L","o","g","o"," ">>, <<"c","a","t",","," ","o","n"," ","t","h","e"," ","M","o","o","n">>, <<" ">> }

\* What a search may extract as its graphic: the descriptions, their words,
\* a stop word and a word of no description.
Graphics ==
    Descriptions \cup { <<"s","n","a","k","e">>, <<"s","t","a","r">>, <<"L","O","G","O">>, <<"c","a","t">>, <<"m","o","o","n">>, <<"t","h","e">>, <<"d","o","g">> }

TagUploads == { TagUpload(OneMember("graphicDescription", d)) : d \in Descriptions }

\* A message content that is a JSON object with a search member and one
\* other member.
WithSearch(search, member) ==
    << Tok("{"), Member("search", JStr(search)), Tok(","), member, Tok("}") >>

\* Extractions with a free-text search: alone, blank, next to a colour, a
\* brand or a price, next to values that no map recognises, and next to
\* each kind of material condition.
SearchContents ==
    { OneMember("search", <<"s","h","i","r","t">>), OneMember("search", <<" ","m","y"," ">>),
      OneMember("search", <<" "," ">>), OneMember("brand", <<"n","o","r","t","h">>) }
    \cup
    { WithSearch(<<"s","h","i","r","t">>, member) :
          member \in { Member("color", JStr(<<"w","h","i","t","e">>)),
                       Member("brand", JStr(<<"n","o","r","t","h">>)),
                       Member("priceMax", JNum(9000)),
                       Member("clothingType", JStr(<<"c","a","p","e">>)),
                       Member("pattern", JStr(<<"p","l","a","i","d">>)),
                       Member("sleeve", JStr(<<"p","u","f","f","e","d">>)),
                       Member("features", JArr(<<JStr(<<"p","o","c","k","e","t","s">>)>>)),
                       Member("features", JArr(<<>>)),
                       Member("graphic", JStr(<<>>)),
                       Member("clothingType", JStr(<<"S","h","i","r","t">>)),
                       Member("pattern", JStr(<<"s","t","r","i","p","e","d">>)),
                       Member("sleeve", JStr(<<"l","o","n","g">>)),
                       Member("graphic", JStr(<<"s","t","a","r">>)),
                       Member("graphic", JStr(<<" ">>)),
                       Member("features", JArr(<<JStr(<<"H","o","o","d","e","d">>)>>)),
                       Member("features", JArr(<<JStr(<<"z","i","p"," ","b","u","t","t","o","n","s">>), JStr(<<"b","u","t","t","o","n">>)>>)) } }

TagQueries ==
    { TagQuery(OneMember("graphic", g)) : g \in Graphics }
    \cup { TagQuery(c) : c \in SearchContents \cup {emptyObject} }

\* Numbers for page and perPage: positive, zero and negative.
PageNumbers == { -2, -1, 0, 1, 2 }

\* Searches and listings with these numbers; the search extracts nothing.
PagedQueries ==
    { QueryRequest(applicationJson,
                   ObjectBody(aPrompt, JNum(page), JNum(perPage), JUndefined),
                   TRUE, Completion(emptyObject)) :
          page \in PageNumbers, perPage \in PageNumbers }

SignedText(k) == IF k < 0 THEN <<"-">> \o numberToString(0 - k) ELSE numberToString(k)

PagedLists ==
    { ClothesRequest(SignedText(page), SignedText(perPage), null, null, null, null) :
          page \in PageNumbers, perPage \in PageNumbers }

TagNext ==
    \/ Idle /\ now < MaxTagged /\ \E r \in TagUploads : Upload(r)
    \/ Idle /\ \E r \in TagQueries \cup PagedQueries : POST(r)
    \/ Idle /\ \E r \in PagedLists : GET(r)
    \/ Respond

TagSpec == Init /\ [][TagNext]_vars

\* The text without the white space around it.
Trimmed(text) ==
    LET ink == { k \in 1..Len(text) : ~IsSpace(text[k]) }
    IN  IF ink = {} THEN <<>>
        ELSE SubSeq(text, CHOOSE k \in ink : \A j \in ink : k <= j,
                          CHOOSE k \in ink : \A j \in ink : k >= j)

\* The description in lower case without the white space around it.
Described(d) == Trimmed(toLowerCase(d))

\* The words of a description: the longest runs of characters that are no
\* white space and no comma, when longer than two characters and no stop
\* word.
WordsOf(d) ==
    LET low == Described(d)
        sep(k) == k < 1 \/ k > Len(low) \/ IsSpace(low[k]) \/ low[k] = ","
        runs == { <<i, j>> \in (1..Len(low)) \X (1..Len(low)) :
                      /\ i <= j
                      /\ \A k \in i..j : ~sep(k)
                      /\ sep(i - 1)
                      /\ sep(j + 1) }
    IN  { w \in { SubSeq(low, r[1], r[2]) : r \in runs } :
              /\ Len(w) > 2
              /\ w \notin { <<"o","n">>, <<"w","i","t","h">>, <<"a","n","d">>, <<"t","h","e">>, <<"a">>, <<"a","n">>, <<"o","f">>, <<"i","n">>, <<"a","t">> } }

\* The graphic description that the vision call gave for the item.
DescriptionOf(item) ==
    IF item.metadata = <<>> THEN undefined
    ELSE item.metadata[1].graphicDescription

\* The conditions on graphic tokens in a where-input.
GraphicConditions(where) ==
    { where.AND[i] :
        i \in { j \in 1..Len(where.AND) :
                  /\ where.AND[j].clauses[1].field = "materials"
                  /\ startsWith(where.AND[j].clauses[1].s, <<"g","r","a","p","h","i","c",":">>) } }

\* The graphic that the extraction of the request yields.
ExtractedGraphic(r) == extractFiltersWithOpenAI(r.apiKey, r.upstream).value.graphic

\* Graphic tags round-trip for the items whose description satisfies
\* described: the item stores graphic:<description> and graphic:<word> for
\* each word, and it satisfies the graphic condition of a search whose
\* graphic is the description or one of the words.
RoundTrip(described(_)) ==
    \A i \in UploadedItems :
        LET item == catalog[i]
            d == DescriptionOf(item)
            has(token) == \E k \in 1..Len(item.materials) : item.materials[k] = token
        IN  (Truthy(d) /\ described(d)) =>
                /\ has(<<"g","r","a","p","h","i","c",":">> \o Described(d))
                /\ \A w \in WordsOf(d) : has(<<"g","r","a","p","h","i","c",":">> \o w)
                /\ (req.route = "query" /\ resp.status = 200) =>
                       LET g == ExtractedGraphic(req)
                       IN  (g = toLowerCase(d) \/ g \in WordsOf(d)) =>
                               /\ GraphicConditions(dbQueries[1].where) # {}
                               /\ \A c \in GraphicConditions(dbQueries[1].where) :
                                      ConditionHolds(item, c)
                               /\ item.id \in { resp.data[k] : k \in 1..Len(resp.data) }

\* The description has a character that is no white space.
NotBlank(d) == \E k \in 1..Len(d) : ~IsSpace(d[k])

AnyDescription(d) == TRUE

\* C22 as stated: graphic tags round-trip for every description.
C22_EveryDescription == RoundTrip(AnyDescription)

\* C22: graphic tags round-trip between upload and search, for every
\* description that is not blank: the item stores graphic:<D in lower case,
\* trimmed> and graphic:<w> for every word w of D (split on white space and
\* commas) longer than two characters that is no stop word, and satisfies
\* the graphic condition of every search whose graphic is D or such a w.
C22_GraphicRoundTrip == RoundTrip(NotBlank)

\* The search for "moon" finds the item that was uploaded with the
\* description "cat, on the Moon".
C22_Witness ==
    /\ req.route = "query"
    /\ resp.status = 200
    /\ ExtractedGraphic(req) = <<"m","o","o","n">>
    /\ \E i \in UploadedItems :
           /\ DescriptionOf(catalog[i]) = <<"c","a","t",","," ","o","n"," ","t","h","e"," ","M","o","o","n">>
           /\ catalog[i].materials = << <<"g","r","a","p","h","i","c",":","c","a","t",","," ","o","n"," ","t","h","e"," ","m","o","o","n">>, <<"g","r","a","p","h","i","c",":","c","a","t">>, <<"g","r","a","p","h","i","c",":","m","o","o","n">> >>
           /\ resp.data = <<catalog[i].id>>

\* An item with a blank description stores no graphic token, and the search
\* for the blank graphic requires the token "graphic:".
C22_WitnessBlank ==
    /\ req.route = "query"
    /\ resp.status = 200
    /\ ExtractedGraphic(req) = <<" ">>
    /\ dbQueries[1].where.AND = << AnyOf(<<Clause("materials", "has", <<"g","r","a","p","h","i","c",":">>)>>) >>
    /\ resp.data = <<>>
    /\ \E i \in UploadedItems :
           /\ DescriptionOf(catalog[i]) = <<" ">>
           /\ catalog[i].materials = <<>>

\* The values of clothingType, pattern and sleeve that the search
\* recognises.
RecognisedTypes ==
    { <<"t","s","h","i","r","t">>, <<"s","h","i","r","t">>, <<"s","w","e","a","t","s","h","i","r","t">>, <<"h","o","o","d","i","e">>, <<"s","w","e","a","t","e","r">>, <<"j","e","a","n","s">>, <<"p","a","n","t","s">>,
      <<"s","h","o","r","t","s">>, <<"j","a","c","k","e","t">>, <<"c","o","a","t">>, <<"b","l","a","z","e","r">>, <<"d","r","e","s","s">>, <<"s","k","i","r","t">>, <<"b","l","o","u","s","e">> }

RecognisedPatterns == { <<"s","t","r","i","p","e","d">>, <<"d","o","t","t","e","d">>, <<"f","l","o","r","a","l">>, <<"g","r","a","p","h","i","c">>, <<"s","o","l","i","d">> }

RecognisedSleeves == { <<"s","h","o","r","t">>, <<"l","o","n","g">>, <<"s","l","e","e","v","e","l","e","s","s">> }

\* The text has the part in it.
Contains(text, part) ==
    \E i \in 1..Len(text) : \E j \in i..Len(text) : SubSeq(text, i, j) = part

\* The number of material conditions that the features of an extraction
\* bring: one for each of hood, zip and button in each feature.
RECURSIVE FeatureHits(_)
FeatureHits(items) ==
    IF items = <<>> THEN 0
    ELSE Cardinality({ sub \in { <<"h","o","o","d">>, <<"z","i","p">>, <<"b","u","t","t","o","n">> } :
                           Contains(toLowerCase(Head(items)), sub) })
         + FeatureHits(Tail(items))

\* The number of material conditions of an extraction.
MaterialCount(x) ==
    (IF x.clothingType \in RecognisedTypes THEN 1 ELSE 0)
    + (IF x.pattern \in RecognisedPatterns THEN 1 ELSE 0)
    + (IF x.sleeve \in RecognisedSleeves THEN 1 ELSE 0)
    + (IF Truthy(x.graphic) THEN 1 ELSE 0)
    + FeatureHits(x.features.items)

\* The text conditions of a where-input.
TextConditions(where) ==
    { i \in 1..Len(where.AND) :
          where.AND[i].isOr /\ where.AND[i].clauses[1].field = "name" }

\* C23: in POST /api/ai/query the text condition (name, description or
\* brand contains the trimmed search, or materials has graphic:<search>) is
\* in the filter if and only if the trimmed search is not empty and the
\* extraction gave no material condition; the conditions that are added are
\* the members of AND, and the filter has no AND when none is added.
C23_SearchFallback ==
    (req.route = "query" /\ resp.status = 200) =>
        LET x      == extractFiltersWithOpenAI(req.apiKey, req.upstream).value
            where  == dbQueries[1].where
            search == IF IsNullish(x.search) THEN <<>> ELSE Trimmed(x.search)
            added  == search # <<>> /\ MaterialCount(x) = 0
            others == (IF ColorsOf(where) # {} THEN 1 ELSE 0)
                      + MaterialCount(x)
                      + (IF Truthy(x.brand) THEN 1 ELSE 0)
                      + (IF x.priceMin.t = "number" \/ x.priceMax.t = "number"
                         THEN 1 ELSE 0)
        IN  /\ (TextConditions(where) # {}) <=> added
            /\ \A i \in TextConditions(where) :
                   where.AND[i] =
                       AnyOf(<< Clause("name", "containsInsensitive", search),
                                Clause("description", "containsInsensitive", search),
                                Clause("brand", "containsInsensitive", search),
                                Clause("materials", "has", <<"g","r","a","p","h","i","c",":">> \o search) >>)
            /\ Cardinality(TextConditions(where)) <= 1
            /\ Len(where.AND) = others + (IF added THEN 1 ELSE 0)
            /\ where.category = undefined
            /\ \A k \in 1..Len(resp.data) :
                   \A i \in 1..Len(where.AND) :
                       ConditionHolds(catalog[resp.data[k]], where.AND[i])

\* The search is added next to a pattern that the handler does not
\* recognise, and finds the seeded shirts.
C23_Witness ==
    /\ req.route = "query"
    /\ resp.status = 200
    /\ req.upstream = Completion(WithSearch(<<"s","h","i","r","t">>, Member("pattern", JStr(<<"p","l","a","i","d">>))))
    /\ Len(dbQueries[1].where.AND) = 1
    /\ TextConditions(dbQueries[1].where) = {1}
    /\ Len(resp.data) > 0

\* The search is left out next to a feature with a hood.
C23_WitnessLeftOut ==
    /\ req.route = "query"
    /\ resp.status = 200
    /\ req.upstream = Completion(WithSearch(<<"s","h","i","r","t">>, Member("features", JArr(<<JStr(<<"H","o","o","d","e","d">>)>>))))
    /\ dbQueries[1].where.AND = << MaterialsHas(<<"h","o","o","d">>) >>

(***************************************************************************)
(* The loading flags and the pages of the explorer.                        *)
(***************************************************************************)
\* The loading flag of a run: isLoading for page 1, isLoadingMore for a
\* later page.
FlagOf(run, loading, loadingMore) ==
    IF run.filters.page = 1 THEN loading ELSE loadingMore

\* C24: in the explorer, whenever a request is in flight and not aborted,
\* its loading flag is true (isLoading for page 1, isLoadingMore for later
\* pages): the completion of a superseded request never clears the flag of
\* the request that replaced it; and load-more does not advance the page
\* while a request is pending.
C24_LoadingFlags ==
    [][ /\ \A i \in DOMAIN fetches' :
               FlagOf(fetches'[i], isLoading', isLoadingMore')
        /\ filters'.page > filters.page => fetches = <<>> ]_vars

\* The request for page 1 that replaced an aborted run is in flight, and
\* the finally block of the aborted run has set isLoading to false.
C24_Witness ==
    /\ mounted
    /\ Len(fetches) = 1
    /\ fetches[1].filters.page = 1
    /\ issued >= 2
    /\ ~isLoading
    /\ ~isLoadingMore
    /\ spinners = {}

\* Pages 1..k of the listing, one after the other.
RECURSIVE ListingPages(_)
ListingPages(k) ==
    IF k = 0 THEN <<>>
    ELSE ListingPages(k - 1)
         \o SubSeq(Ids(NewestFirst(catalog)),
                   (k - 1) * 12 + 1, Min(k * 12, Len(catalog)))

\* C25: with the applied search fixed and the catalog unchanged, once the
\* request for the current page k has completed, whatever load-more
\* triggers and responses came before, the displayed list is pages 1..k of
\* the results in order: no page is missing and none is there twice.
C25_PagesInOrder ==
    (mounted /\ fetches = <<>> /\ shownError = NoError) =>
        shownItems = ListingPages(filters.page)

\* Page 3 was loaded after the request for page 2 had failed.
C25_WitnessSkipped ==
    /\ mounted
    /\ fetches = <<>>
    /\ shownError = NoError
    /\ filters.page = 3
    /\ debounceTimer = -1
    /\ shownItems = ListingPages(1)
                        \o SubSeq(Ids(NewestFirst(catalog)), 25, Len(catalog))

\* Page 2 was loaded twice: the second time after the debounce timer of the
\* mount had set the page back to 1, during the load of page 1.
C25_WitnessTwice ==
    /\ mounted
    /\ fetches = <<>>
    /\ shownError = NoError
    /\ filters.page = 2
    /\ Len(shownItems) = 36

\* The stored files that are the imageUrl of no item.
Orphans ==
    { url \in storage : \A i \in DOMAIN catalog : catalog[i].imageUrl # url }

\* C26: after any uploads, those whose datastore write fails among them,
\* every file in storage is the imageUrl of an item of the catalog.
C26_NoOrphanFile == Orphans = {}

\* The write of the upload failed, and its file is in storage.
C26_Witness ==
    /\ req.route = "upload"
    /\ req.dbError = "Can't reach database server"
    /\ resp.status = 500
    /\ catalog = <<>>
    /\ Orphans = { publicUrl(FALSE, 0, aPhoto.name) }

\* C27: a POST /api/upload that is answered 415, 400 or 413 changes
\* nothing: no file is written, the vision endpoint is not called, and no
\* item and no image is created.
C27_RejectedChangesNothing ==
    [][ (Uploads /\ resp'.status \in {415, 400, 413}) =>
            /\ storage' = storage
            /\ aiCalls' = 0
            /\ catalog' = catalog
            /\ now' = now ]_vars

\* A file of a type that is not allowed, with a vision call that would
\* have tagged it, after one upload that was stored.
C27_Witness ==
    /\ req.route = "upload"
    /\ req.file = aGif
    /\ req.apiKey
    /\ req.upstream = Completion(garment)
    /\ resp.status = 400
    /\ resp.error = "Unsupported file type"
    /\ Cardinality(storage) = 1
    /\ aiCalls = 0
    /\ Len(catalog) = 1
    /\ Orphans = {}

(***************************************************************************)
(* Properties of the numbers of a page.                                    *)
(***************************************************************************)
\* The request gives numbers for page and perPage.
GivesNumbers(r) ==
    IF r.route = "query"
    THEN /\ r.body.kind = "object"
         /\ r.body.members.page.t = "number"
         /\ r.body.members.perPage.t = "number"
    ELSE /\ r.route = "clothes"
         /\ parseInt(r.page).kind = "finite"
         /\ parseInt(r.perPage).kind = "finite"

\* The handler of the route, given numbers for page and perPage, queries
\* the datastore with skip >= 0 and take >= 1 and answers with a
\* totalPages that is a finite integer >= 1.
Paging(route) ==
    (req.route = route /\ GivesNumbers(req) /\ dbQueries # <<>>) =>
        /\ dbQueries[1].skip >= 0
        /\ dbQueries[1].take >= 1
        /\ resp.status = 200
        /\ resp.meta.totalPages.kind = "finite"
        /\ resp.meta.totalPages.n >= 1

\* C28: for every numeric page and perPage in the body of POST
\* /api/ai/query, zero and negative integers among them, the datastore query
\* has skip >= 0 and take >= 1 and the response's meta.totalPages is a
\* finite integer >= 1, as for GET /api/clothes.
C28_QueryPaging == Paging("query") /\ Paging("clothes")

\* GET /api/clothes alone.
ClothesPaging == Paging("clothes")

\* Page 0: the skip is negative, the ORM rejects the query and the handler
\* throws.
C28_Witness ==
    /\ req.route = "query"
    /\ req.body.members.page = JNum(0)
    /\ req.body.members.perPage = JNum(2)
    /\ dbQueries[1].skip = -2
    /\ resp.unhandled

\* perPage 0 on the seeded catalog: take is 0 and totalPages is Infinity,
\* which the response carries as null.
C28_WitnessInfinity ==
    /\ req.route = "query"
    /\ req.body.members.page = JNum(1)
    /\ req.body.members.perPage = JNum(0)
    /\ dbQueries[1].take = 0
    /\ resp.status = 200
    /\ resp.meta.total = 6
    /\ resp.meta.totalPages = Infinity

\* perPage -1 on page 0: the skip is 1, the take is negative, and the
\* response lists the oldest item but one.
C28_WitnessNegativeTake ==
    /\ req.route = "query"
    /\ req.body.members.page = JNum(0)
    /\ req.body.members.perPage = JNum(-1)
    /\ dbQueries[1].skip = 1
    /\ dbQueries[1].take = -1
    /\ resp.status = 200
    /\ Len(catalog) = 6
    /\ resp.data = <<2>>

(***************************************************************************)
(* The colour of a search, once more.                                      *)
(***************************************************************************)
\* The colour that the member of the body gives: none when the member is
\* absent, null or the empty string.
GivenColor(seed) ==
    IF seed.t = "string" /\ Len(seed.s) > 0 THEN seed.s ELSE <<>>

\* C29: when the extraction of a POST /api/ai/query yields a colour that is
\* not empty, the filter has a colour condition, on the colour of the
\* request when it gives one and on the extracted colour otherwise; a color
\* member that carries no colour, such as "", does not remove it.
C29_ExtractedColorKept ==
    (req.route = "query" /\ resp.status = 200 /\ Truthy(ExtractedColor(req))) =>
        LET given == GivenColor(req.body.members.color)
        IN  ColorsOf(dbQueries[1].where) =
                { toLowerCase(IF given # <<>> THEN given ELSE ExtractedColor(req)) }

\* The request has "" for its colour and the extraction yields blue: the
\* filter has no condition at all, and the response lists every item.
C29_Witness ==
    /\ req.route = "query"
    /\ resp.status = 200
    /\ req.body.members.color = JStr(<<>>)
    /\ ExtractedColor(req) = <<"b","l","u","e">>
    /\ dbQueries[1].where = EmptyWhere
    /\ resp.meta.total = Len(catalog)
    /\ Len(catalog) = 6

(***************************************************************************)
(* The vocabularies of upload and search.  Uploads whose vision call gives *)
(* a clothingType, a pattern and a sleeve, then searches whose extraction  *)
(* gives one of them or all three.                                         *)
(***************************************************************************)
Tagged(clothingType, pattern, sleeve) ==
    << Tok("{"), Member("clothingType", JStr(clothingType)), Tok(","),
       Member("pattern", JStr(pattern)), Tok(","),
       Member("sleeve", JStr(sleeve)), Tok("}") >>

\* The i-th triple of values that the search recognises: every value is
\* in one of them.
Triple(i) ==
    Tagged(typeMap[i][1], patternMap[(i % Len(patternMap)) + 1][1],
           sleeveMap[(i % Len(sleeveMap)) + 1][1])

VocabularyUploads == { TagUpload(Triple(i)) : i \in 1..Len(typeMap) }

VocabularyQueries ==
    { TagQuery(Triple(i)) : i \in 1..Len(typeMap) }
    \cup { TagQuery(OneMember("clothingType", typeMap[i][1])) : i \in 1..Len(typeMap) }
    \cup { TagQuery(OneMember("pattern", patternMap[i][1])) : i \in 1..Len(patternMap) }
    \cup { TagQuery(OneMember("sleeve", sleeveMap[i][1])) : i \in 1..Len(sleeveMap) }
    \cup { TagQuery(OneMember("sleeve", <<"S","l","e","e","v","e","l","e","s","s">>)),
           TagQuery(OneMember("clothingType", <<"c","a","p","e">>)) }

VocabularyNext ==
    \/ Idle /\ now < MaxTagged /\ \E r \in VocabularyUploads : Upload(r)
    \/ Idle /\ \E r \in VocabularyQueries : POST(r)
    \/ Respond

VocabularySpec == Init /\ [][VocabularyNext]_vars

\* The tokens with the prefix that the conditions of a where-input require
\* of materials.
RequiredTokens(where, prefix) ==
    { where.AND[i].clauses[1].s :
        i \in { j \in 1..Len(where.AND) :
                  /\ ~where.AND[j].isOr
                  /\ where.AND[j].clauses[1].field = "materials"
                  /\ where.AND[j].clauses[1].op = "has"
                  /\ startsWith(where.AND[j].clauses[1].s, prefix) } }

\* The tokens with the prefix that the item stores.
StoredTokens(item, prefix) ==
    { item.materials[k] :
        k \in { j \in 1..Len(item.materials) : startsWith(item.materials[j], prefix) } }

\* The vocabularies agree on a field: when the extraction of the search
\* has a recognised value, the filter requires the token prefix:value, and
\* the token is the one that every item stores whose vision extraction had
\* that value.
Agree(field, recognised, prefix) ==
    LET x == extractFiltersWithOpenAI(req.apiKey, req.upstream).value
    IN  x[field] \in recognised =>
            /\ RequiredTokens(dbQueries[1].where, prefix) = { prefix \o x[field] }
            /\ \A i \in UploadedItems :
                   (/\ catalog[i].metadata # <<>>
                    /\ Truthy(catalog[i].metadata[1][field])
                    /\ toLowerCase(catalog[i].metadata[1][field]) = x[field]) =>
                       StoredTokens(catalog[i], prefix) = { prefix \o x[field] }

\* The items whose vision extraction had every value that the extraction
\* of the search has.
SameValues ==
    LET x == extractFiltersWithOpenAI(req.apiKey, req.upstream).value
    IN  { i \in UploadedItems :
            /\ catalog[i].metadata # <<>>
            /\ \A field \in {"clothingType", "pattern", "sleeve"} :
                   Truthy(x[field]) =>
                       /\ Truthy(catalog[i].metadata[1][field])
                       /\ toLowerCase(catalog[i].metadata[1][field]) = x[field] }

\* C30: for every clothingType, pattern and sleeve that POST /api/ai/query
\* recognises, the token that its filter requires (type:, pattern:,
\* sleeve:) is exactly the token that POST /api/upload stores for a vision
\* extraction with the same value; an item tagged at upload with the values
\* satisfies the conditions of every search whose extraction has them.
C30_VocabulariesAgree ==
    (req.route = "query" /\ resp.status = 200) =>
        /\ Agree("clothingType", RecognisedTypes, <<"t","y","p","e",":">>)
        /\ Agree("pattern", RecognisedPatterns, <<"p","a","t","t","e","r","n",":">>)
        /\ Agree("sleeve", RecognisedSleeves, <<"s","l","e","e","v","e",":">>)
        /\ \A i \in SameValues :
               /\ Matches(catalog[i], dbQueries[1].where)
               /\ catalog[i].id \in { resp.data[k] : k \in 1..Len(resp.data) }

\* The search for sleeveless items finds the one of the two uploads that
\* was tagged sleeveless.
C30_Witness ==
    /\ req.route = "query"
    /\ resp.status = 200
    /\ req.upstream = Completion(OneMember("sleeve", <<"S","l","e","e","v","e","l","e","s","s">>))
    /\ dbQueries[1].where.AND = << MaterialsHas(<<"s","l","e","e","v","e",":","s","l","e","e","v","e","l","e","s","s">>) >>
    /\ Cardinality(UploadedItems) = 2
    /\ Cardinality(SameValues) = 1
    /\ Len(resp.data) = 1

====
